---- MODULE Spec2Model ----
(***************************************************************************)
(* copycat: expansion of a template tree against a YAML model.             *)
(*                                                                         *)
(* Strings are sequences of one-character strings, so that concatenation,  *)
(* suffix trimming, substring replacement and the placeholder regexp are   *)
(* computed as the Go code computes them.  Model values are tagged records *)
(* (map, list, str, bool, nil); a context is such a value.                 *)
(***************************************************************************)
EXTENDS Integers, Sequences, FiniteSets, TLC

VARIABLES
    tmpl,     \* cc.TemplateFS, the template tree: path -> [isDir, body]
    out,      \* cc.OutputFS, the output store: path -> [isDir, data]
    before,   \* the output store as it was when the last run started
    last,     \* the last ProcessDir call: its inputs, its error, its operations
    prev,     \* the ProcessDir call before the last one
    seg,      \* expandPath's argument path
    ectx,     \* expandPath's argument ctx
    eres,     \* expandPath's result
    root,     \* expandPathSegment's argument rootModel; normalize's argument v
    created,  \* removeEmptyCreatedDirs's argument createdDirs
    todo      \* removeEmptyCreatedDirs: dirs, in the order the map's iteration gave

vars == <<tmpl, out, before, last, prev, seg, ectx, eres, root, created, todo>>

-----------------------------------------------------------------------------
(* Bounds *)

MaxFaultAt == 6

-----------------------------------------------------------------------------
(* Strings *)

LB == <<"{", "{">>
RB == <<"}", "}">>
TmplSuffix == <<".", "t", "m", "p", "l">>

\* the bytes used, in ascending byte order
Alphabet == <<"\n", " ", "-", ".", "0", "1", ":", "<", ">", "P", "X", "Y",
              "[", "]", "a", "b", "c", "d", "e", "f", "g", "h", "i", "k",
              "l", "m", "n", "o", "p", "r", "s", "t", "u", "v", "w", "x",
              "z", "{", "}">>

Ord(c) == CHOOSE i \in 1..Len(Alphabet) : Alphabet[i] = c

IsSpace(c) == c \in {" ", "\n"}

\* s < t in byte-wise lexicographic order
RECURSIVE StrLess(_, _)
StrLess(s, t) ==
    IF t = <<>> THEN FALSE
    ELSE IF s = <<>> THEN TRUE
    ELSE IF Head(s) = Head(t) THEN StrLess(Tail(s), Tail(t))
    ELSE Ord(Head(s)) < Ord(Head(t))

HasPrefixAt(s, i, p) ==
    /\ i + Len(p) - 1 <= Len(s)
    /\ \A k \in 1..Len(p) : s[i + k - 1] = p[k]

HasSuffix(s, suf) ==
    Len(suf) <= Len(s) /\ HasPrefixAt(s, Len(s) - Len(suf) + 1, suf)

TrimSuffix(s, suf) ==
    IF HasSuffix(s, suf) THEN SubSeq(s, 1, Len(s) - Len(suf)) ELSE s

RECURSIVE TrimLeft(_)
TrimLeft(s) == IF s # <<>> /\ IsSpace(Head(s)) THEN TrimLeft(Tail(s)) ELSE s

RECURSIVE TrimRight(_)
TrimRight(s) ==
    IF s # <<>> /\ IsSpace(s[Len(s)]) THEN TrimRight(SubSeq(s, 1, Len(s) - 1))
    ELSE s

TrimSpace(s) == TrimRight(TrimLeft(s))

\* strings.ReplaceAll(s, old, new), old non-empty
RECURSIVE ReplaceAll(_, _, _)
ReplaceAll(s, old, new) ==
    IF s = <<>> THEN <<>>
    ELSE IF HasPrefixAt(s, 1, old)
         THEN new \o ReplaceAll(SubSeq(s, Len(old) + 1, Len(s)), old, new)
         ELSE <<Head(s)>> \o ReplaceAll(Tail(s), old, new)

\* strings.Split(s, sep), sep one character
RECURSIVE SplitAcc(_, _, _)
SplitAcc(s, sep, cur) ==
    IF s = <<>> THEN <<cur>>
    ELSE IF Head(s) = sep THEN <<cur>> \o SplitAcc(Tail(s), sep, <<>>)
    ELSE SplitAcc(Tail(s), sep, Append(cur, Head(s)))

Split(s, sep) == SplitAcc(s, sep, <<>>)

\* the first index >= i of s holding c, or 0
RECURSIVE IndexFrom(_, _, _)
IndexFrom(s, i, c) ==
    IF i > Len(s) THEN 0
    ELSE IF s[i] = c THEN i
    ELSE IndexFrom(s, i + 1, c)

-----------------------------------------------------------------------------
(* The placeholder regexp \{\{\s*([^}]+)\s*\}\} *)

\* The end index of a match starting at i, or 0.  After "{{" the group [^}]+
\* cannot cross a "}", so the closing "}}" sits at the first "}" that follows,
\* with at least one character in between.
MatchEnd(s, i) ==
    IF ~HasPrefixAt(s, i, LB) THEN 0
    ELSE LET k == IndexFrom(s, i + 2, "}")
         IN  IF k > i + 2 /\ HasPrefixAt(s, k, RB) THEN k + 1 ELSE 0

\* The submatch: \s* is greedy, and gives a character back only when the
\* text between the braces is all white space.
MatchGroup(s, i, e) ==
    LET between == SubSeq(s, i + 2, e - 2)
        rest == TrimLeft(between)
    IN  IF rest # <<>> THEN rest ELSE <<between[Len(between)]>>

\* re.FindAllStringSubmatch(path, -1): the non-overlapping matches from the
\* left, each as <<match[0], match[1]>>
RECURSIVE FindAllFrom(_, _)
FindAllFrom(s, i) ==
    IF i > Len(s) THEN <<>>
    ELSE LET e == MatchEnd(s, i)
         IN  IF e = 0 THEN FindAllFrom(s, i + 1)
             ELSE <<<<SubSeq(s, i, e), MatchGroup(s, i, e)>>>>
                      \o FindAllFrom(s, e + 1)

FindAllStringSubmatch(s) == FindAllFrom(s, 1)

-----------------------------------------------------------------------------
(* Model values: map[string]any, []any, string, bool, nil *)

Str(s) == [t |-> "str", s |-> s, kv |-> <<>>, el |-> <<>>]
Bool(b) ==
    [t |-> "bool",
     s |-> IF b THEN <<"t", "r", "u", "e">> ELSE <<"f", "a", "l", "s", "e">>,
     kv |-> <<>>, el |-> <<>>]
Nil == [t |-> "nil", s |-> <<>>, kv |-> <<>>, el |-> <<>>]
\* kv is a sequence of <<key, value>> with distinct keys
Map(kv) == [t |-> "map", s |-> <<>>, kv |-> kv, el |-> <<>>]
List(el) == [t |-> "list", s |-> <<>>, kv |-> <<>>, el |-> el]

\* val, ok := v[key]
HasKey(v, key) == \E i \in 1..Len(v.kv) : v.kv[i][1] = key
Get(v, key) == v.kv[CHOOSE i \in 1..Len(v.kv) : v.kv[i][1] = key][2]

isScalar(v) == v.t \in {"str", "bool"}

\* fmt.Sprint of a scalar
Sprint(v) == v.s

-----------------------------------------------------------------------------
(* expandPath *)

RECURSIVE resolveKeyPathWithContext(_, _, _)
resolveKeyPathWithContext(parent, data, keys) ==
    IF keys = <<>> THEN <<[result |-> data, ctx |-> parent]>>
    ELSE LET key == Head(keys)
             \* for _, item := range v
             Items[i \in 0..Len(data.el)] ==
                 IF i = 0 THEN <<>>
                 ELSE Items[i - 1]
                        \o resolveKeyPathWithContext(parent, data.el[i], keys)
         IN  CASE data.t = "map" ->
                    IF HasKey(data, key)
                    THEN resolveKeyPathWithContext(data, Get(data, key), Tail(keys))
                    ELSE <<>>
               [] data.t = "list" -> Items[Len(data.el)]
               [] OTHER -> <<>>

\* strings.Split(match[1], ".") with every element trimmed
KeyPath(group) ==
    LET parts == Split(group, ".")
    IN  [i \in 1..Len(parts) |-> TrimSpace(parts[i])]

\* the candidates of one candidate, each keeping the candidate's context
ExpandCandidateSameCtx(cand, placeholder, keyPath) ==
    LET values == resolveKeyPathWithContext(cand.ctx, cand.ctx, keyPath)
    IN  [i \in 1..Len(values) |->
            IF isScalar(values[i].result)
            THEN [value |-> ReplaceAll(cand.value, placeholder,
                                       Sprint(values[i].result)),
                  ctx |-> cand.ctx]
            ELSE [value |-> cand.value, ctx |-> cand.ctx]]

\* the candidates one candidate turns into under one placeholder
ExpandCandidate(cand, placeholder, keyPath) ==
    LET values == resolveKeyPathWithContext(cand.ctx, cand.ctx, keyPath)
    IN  [i \in 1..Len(values) |->
            IF isScalar(values[i].result)
            THEN [value |-> ReplaceAll(cand.value, placeholder,
                                       Sprint(values[i].result)),
                  ctx |-> values[i].ctx]
            ELSE [value |-> cand.value, ctx |-> values[i].ctx]]

expandPath(path, ctx) ==
    LET matches == FindAllStringSubmatch(path)
        \* candidates after the first m matches
        Cands[m \in 0..Len(matches)] ==
            IF m = 0 THEN <<[value |-> path, ctx |-> ctx]>>
            ELSE LET cs == Cands[m - 1]
                     New[c \in 0..Len(cs)] ==
                         IF c = 0 THEN <<>>
                         ELSE New[c - 1]
                                \o ExpandCandidate(cs[c], matches[m][1],
                                                   KeyPath(matches[m][2]))
                 IN  New[Len(cs)]
    IN  Cands[Len(matches)]


-----------------------------------------------------------------------------
(* renderContent: text/template with missingkey=error and the root helper *)

\* A template body is a sequence of parsed items:
\*   text s                      literal text
\*   dot path                    {{ .a.b }}
\*   root path                   {{ (root).a.b }}
\*   if path s                   {{ if .a.b }}s{{ end }}
Text(s) == [k |-> "text", s |-> s, path |-> <<>>]
Dot(path) == [k |-> "dot", s |-> <<>>, path |-> path]
Root(path) == [k |-> "root", s |-> <<>>, path |-> path]
If(path, s) == [k |-> "if", s |-> s, path |-> path]

\* names in ascending order
RECURSIVE SortNames(_)
SortNames(S) ==
    IF S = {} THEN <<>>
    ELSE LET m == CHOOSE x \in S : \A y \in S \ {x} : StrLess(x, y)
         IN  <<m>> \o SortNames(S \ {m})

RECURSIVE JoinStrings(_, _)
JoinStrings(ss, sep) ==
    IF ss = <<>> THEN <<>>
    ELSE IF Len(ss) = 1 THEN ss[1]
    ELSE ss[1] \o sep \o JoinStrings(Tail(ss), sep)

\* fmt's %v form of a value
RECURSIVE GoPrint(_)
GoPrint(v) ==
    CASE v.t \in {"str", "bool"} -> v.s
      [] v.t = "nil" -> <<"<", "n", "i", "l", ">">>
      [] v.t = "list" ->
            <<"[">> \o JoinStrings([i \in 1..Len(v.el) |-> GoPrint(v.el[i])],
                                   <<" ">>) \o <<"]">>
      [] v.t = "map" ->
            LET keys == SortNames({v.kv[i][1] : i \in 1..Len(v.kv)})
            IN  <<"m", "a", "p", "[">>
                  \o JoinStrings([i \in 1..Len(keys) |->
                                     keys[i] \o <<":">> \o GoPrint(Get(v, keys[i]))],
                                 <<" ">>)
                  \o <<"]">>

\* what an action prints for a value
PrintValue(v) ==
    IF v.t = "nil" THEN <<"<", "n", "o", " ", "v", "a", "l", "u", "e", ">">>
    ELSE GoPrint(v)

\* the field chain .a.b on v: a missing key, or a field of a non-map, fails
RECURSIVE Field(_, _)
Field(v, path) ==
    IF path = <<>> THEN [err |-> FALSE, v |-> v]
    ELSE IF v.t = "map" /\ HasKey(v, Head(path))
         THEN Field(Get(v, Head(path)), Tail(path))
         ELSE [err |-> TRUE, v |-> Nil]

\* text/template truth
IsTrue(v) ==
    CASE v.t = "bool" -> v = Bool(TRUE)
      [] v.t = "str" -> v.s # <<>>
      [] v.t = "nil" -> FALSE
      [] v.t = "list" -> v.el # <<>>
      [] v.t = "map" -> v.kv # <<>>

RenderItem(item, rootModel, ctx) ==
    LET f == Field(IF item.k = "root" THEN rootModel ELSE ctx, item.path)
    IN  CASE item.k = "text" -> [err |-> FALSE, s |-> item.s]
          [] item.k \in {"dot", "root"} ->
                IF f.err THEN [err |-> TRUE, s |-> <<>>]
                ELSE [err |-> FALSE, s |-> PrintValue(f.v)]
          [] item.k = "if" ->
                IF f.err THEN [err |-> TRUE, s |-> <<>>]
                ELSE [err |-> FALSE, s |-> IF IsTrue(f.v) THEN item.s ELSE <<>>]

RECURSIVE renderContent(_, _, _)
renderContent(content, rootModel, ctx) ==
    IF content = <<>> THEN [err |-> FALSE, s |-> <<>>]
    ELSE LET h == RenderItem(Head(content), rootModel, ctx)
             r == renderContent(Tail(content), rootModel, ctx)
         IN  IF h.err \/ r.err THEN [err |-> TRUE, s |-> <<>>]
             ELSE [err |-> FALSE, s |-> h.s \o r.s]

-----------------------------------------------------------------------------
(* afero.Fs: a store is a function from paths to nodes; the path <<>> is   *)
(* the root the run is given (the template root, the output root)          *)

Dir == [isDir |-> TRUE, data |-> <<>>]
File(data) == [isDir |-> FALSE, data |-> data]

\* the store holding the root and the given <<path, node>> pairs
MkFS(pairs) ==
    [p \in {<<>>} \cup {x[1] : x \in pairs} |->
        IF p = <<>> THEN Dir ELSE (CHOOSE x \in pairs : x[1] = p)[2]]

Put(fs, p, node) == [q \in DOMAIN fs \cup {p} |-> IF q = p THEN node ELSE fs[q]]
Del(fs, p) == [q \in DOMAIN fs \ {p} |-> fs[q]]

Front(p) == SubSeq(p, 1, Len(p) - 1)
Base(p) == p[Len(p)]

\* filepath.Join(dir, name) for a name without a separator
Join(dir, name) == IF name = <<>> THEN dir ELSE Append(dir, name)

Children(fs, p) ==
    {q \in DOMAIN fs : Len(q) = Len(p) + 1 /\ SubSeq(q, 1, Len(p)) = p}

IsDirAt(fs, p) == p \in DOMAIN fs /\ fs[p].isDir
IsFileAt(fs, p) == p \in DOMAIN fs /\ ~fs[p].isDir

Prefixes(p) == {SubSeq(p, 1, k) : k \in 0..Len(p)}

-----------------------------------------------------------------------------
(* One run's state: the output store, the error, the operations so far,    *)
(* and the number of store calls made.  cc.fault = k > 0 makes the k-th    *)
(* store call of the run fail (a storage error).                           *)

Entry(op, t, path, ctx, data, ok) ==
    [op |-> op, t |-> t, path |-> path, ctx |-> ctx, data |-> data, ok |-> ok]

Faulted(cc, st) == cc.fault = st.n + 1

\* a store call that returns fs and whether it succeeded
Called(st, e, fs) ==
    [fs |-> IF e.ok THEN fs ELSE st.fs,
     err |-> st.err \/ ~e.ok,
     log |-> Append(st.log, e),
     n |-> st.n + 1]

\* fmt.Printf of a dry-run line
Printed(st, op, t, path, data) ==
    [st EXCEPT !.log = Append(@, Entry(op, t, path, Nil, data, TRUE))]

\* OutputFS.Mkdir(path): fails when path exists or its parent is no directory
Mkdir(cc, st, t, path) ==
    LET ok == /\ ~Faulted(cc, st)
              /\ path \notin DOMAIN st.fs
              /\ IsDirAt(st.fs, Front(path))
    IN  Called(st, Entry("MkdirAll", t, path, Nil, <<>>, ok),
               Put(st.fs, path, Dir))

\* OutputFS.MkdirAll(path): fails when a prefix of path is a file
MkdirAll(cc, st, t, path) ==
    LET ok == /\ ~Faulted(cc, st)
              /\ \A q \in Prefixes(path) : q \in DOMAIN st.fs => st.fs[q].isDir
    IN  Called(st, Entry("MkdirAll", t, path, Nil, <<>>, ok),
               [q \in DOMAIN st.fs \cup Prefixes(path) |->
                   IF q \in DOMAIN st.fs THEN st.fs[q] ELSE Dir])

\* the entries of a directory in descending order of their names
DirEntriesDescending(fs, path) ==
    LET names == SortNames({Base(q) : q \in Children(fs, path)})
        n == Len(names)
    IN  [i \in 1..n |->
            [name |-> names[n + 1 - i],
             isDir |-> fs[Append(path, names[n + 1 - i])].isDir]]

\* afero.ReadDir(fs, path): the entries of a directory, sorted by name
DirEntries(fs, path) ==
    LET names == SortNames({Base(q) : q \in Children(fs, path)})
    IN  [i \in 1..Len(names) |->
            [name |-> names[i], isDir |-> fs[Append(path, names[i])].isDir]]

ReadDirOut(cc, st, t, path) ==
    LET ok == ~Faulted(cc, st) /\ IsDirAt(st.fs, path)
    IN  [st |-> Called(st, Entry("ReadDir", t, path, Nil, <<>>, ok), st.fs),
         entries |-> IF ok THEN DirEntries(st.fs, path) ELSE <<>>]

ReadDirTemplate(cc, st, path) ==
    LET ok == ~Faulted(cc, st) /\ IsDirAt(cc.TemplateFS, path)
    IN  [st |-> Called(st, Entry("ReadDirTemplate", path, <<>>, Nil, <<>>, ok),
                       st.fs),
         entries |-> IF ok THEN DirEntries(cc.TemplateFS, path) ELSE <<>>]

\* afero.ReadFile(TemplateFS, path)
ReadFile(cc, st, path) ==
    LET ok == ~Faulted(cc, st) /\ IsFileAt(cc.TemplateFS, path)
    IN  [st |-> Called(st, Entry("ReadFile", path, <<>>, Nil, <<>>, ok), st.fs),
         data |-> IF ok THEN cc.TemplateFS[path].data ELSE <<>>]

\* afero.Exists(OutputFS, path): (false, err) when the check itself fails.
\* The caller decides what an error means, so err is returned, not recorded.
Exists(cc, st, t, path) ==
    LET ok == ~Faulted(cc, st)
    IN  [st |-> [st EXCEPT !.log = Append(@, Entry("Exists", t, path, Nil,
                                                   <<>>, ok)),
                           !.n = @ + 1],
         exists |-> ok /\ path \in DOMAIN st.fs,
         err |-> ~ok]

\* OutputFS.Remove(path): a file or an empty directory
Remove(cc, st, t, path) ==
    LET ok == /\ ~Faulted(cc, st)
              /\ path \in DOMAIN st.fs
              /\ Children(st.fs, path) = {}
    IN  Called(st, Entry("Remove", t, path, Nil, <<>>, ok), Del(st.fs, path))

\* afero.WriteFile(OutputFS, path, data)
WriteFile(cc, st, t, path, data) ==
    LET ok == /\ ~Faulted(cc, st)
              /\ path # <<>>
              /\ IsDirAt(st.fs, Front(path))
              /\ ~IsDirAt(st.fs, path)
    IN  Called(st, Entry("WriteFile", t, path, Nil, data, ok),
               Put(st.fs, path, File(data)))

-----------------------------------------------------------------------------
(* CopyCat.ProcessDir *)

\* the error is dropped and the walk goes on
Ignored(st) == FALSE

\* if err != nil { return faults.Wrap(err) }
Failed(st) == st.err

\* strings.TrimSuffix(outPath, ".tmpl") on the joined path
TrimTmpl(outPath) ==
    IF outPath = <<>> THEN outPath
    ELSE Join(Front(outPath), TrimSuffix(Base(outPath), TmplSuffix))

\* the directory is made whether or not the run is a dry run
MakeDirAlways(cc, st, t, outPath) == MkdirAll(cc, st, t, outPath)

\* if cc.DryRun { print } else { MkdirAll }
MakeDir(cc, st, t, outPath) ==
    IF cc.DryRun THEN Printed(st, "[DIR]", t, outPath, <<>>)
    ELSE MkdirAll(cc, st, t, outPath)

\* the directory is left as it is, empty or not
LeaveDir(cc, st, t, outPath) == st

\* after processing the directory, remove it if it is empty
RemoveIfEmpty(cc, st, t, outPath) ==
    IF cc.DryRun THEN st
    ELSE LET r == ReadDirOut(cc, st, t, outPath)
         IN  IF Failed(r.st) THEN r.st
             ELSE IF Len(r.entries) = 0 THEN Remove(cc, r.st, t, outPath)
             ELSE r.st

\* if content == ""
IsEmptyContent(content) == content = <<>>

\* the skip of an empty file is not reported by a dry run
SkipEmptySilent(cc, st, t, outPath) ==
    IF cc.DryRun THEN st
    ELSE LET r == Exists(cc, st, t, outPath)
         IN  IF r.exists
             THEN IF r.err THEN [r.st EXCEPT !.err = TRUE]
                  ELSE Remove(cc, r.st, t, outPath)
             ELSE r.st

\* the content is empty: skip the file, removing the one of a previous run
SkipEmpty(cc, st, t, outPath) ==
    IF cc.DryRun THEN Printed(st, "[SKIP]", t, outPath, <<>>)
    ELSE LET r == Exists(cc, st, t, outPath)
         IN  IF r.exists
             THEN IF r.err THEN [r.st EXCEPT !.err = TRUE]
                  ELSE Remove(cc, r.st, t, outPath)
             ELSE r.st

\* the content is written under the name as expanded, suffix and all
WriteOutUntrimmed(cc, st, t, outPath, content) ==
    IF cc.DryRun THEN Printed(st, "[FILE]", t, outPath, content)
    ELSE WriteFile(cc, st, t, outPath, content)

\* the content is not empty: write it with the .tmpl suffix trimmed
WriteOut(cc, st, t, outPath, content) ==
    IF cc.DryRun THEN Printed(st, "[FILE]", t, TrimTmpl(outPath), content)
    ELSE WriteFile(cc, st, t, TrimTmpl(outPath), content)

\* a file entry, for one expansion of its name
ProcessFile(cc, st, t, outPath, ctx) ==
    LET rd == ReadFile(cc, st, t)
        c == renderContent(rd.data, cc.Model, ctx)
        st2 == [rd.st EXCEPT
                   !.log = Append(@, Entry("render", t, outPath, ctx, c.s, ~c.err)),
                   !.err = @ \/ c.err]
    IN  IF Failed(rd.st) THEN rd.st
        ELSE IF Failed(st2) THEN st2
        ELSE IF IsEmptyContent(c.s) THEN SkipEmpty(cc, st2, t, outPath)
        ELSE WriteOut(cc, st2, t, outPath, c.s)

RECURSIVE ProcessDir(_, _, _, _, _)
RECURSIVE ProcessEntries(_, _, _, _, _, _, _)
RECURSIVE ProcessItems(_, _, _, _, _, _, _)

\* the directory is checked for emptiness before its entries are processed
ProcessSubdirCheckFirst(cc, st, t, outPath, ctx) ==
    LET s1 == MakeDir(cc, st, t, outPath)
        s2 == RemoveIfEmpty(cc, s1, t, outPath)
    IN  IF Failed(s1) THEN s1
        ELSE IF Failed(s2) THEN s2
        ELSE ProcessDir(cc, t, outPath, ctx, s2)

\* a directory entry, for one expansion of its name
ProcessSubdir(cc, st, t, outPath, ctx) ==
    LET s1 == MakeDir(cc, st, t, outPath)
        s2 == ProcessDir(cc, t, outPath, ctx, s1)
    IN  IF Failed(s1) THEN s1
        ELSE IF Failed(s2) THEN s2
        ELSE RemoveIfEmpty(cc, s2, t, outPath)

\* for _, item := range expanded
ProcessItems(cc, currentTemplatePath, currentOutPath, entry, expanded, j, st) ==
    IF j > Len(expanded) THEN st
    ELSE LET item == expanded[j]
             outPath == Join(currentOutPath, item.value)
             t == Join(currentTemplatePath, entry.name)
             s1 == IF entry.isDir
                   THEN ProcessSubdir(cc, st, t, outPath, item.ctx)
                   ELSE ProcessFile(cc, st, t, outPath, item.ctx)
         IN  IF Failed(s1) THEN s1
             ELSE ProcessItems(cc, currentTemplatePath, currentOutPath, entry,
                               expanded, j + 1, s1)

\* the context of an entry's last expansion is carried over to the entries
\* after it
ProcessEntriesCarry(cc, currentTemplatePath, currentOutPath, ctx, entries, i, st) ==
    IF i > Len(entries) THEN st
    ELSE LET expanded == expandPath(entries[i].name, ctx)
             s1 == ProcessItems(cc, currentTemplatePath, currentOutPath,
                                entries[i], expanded, 1, st)
         IN  IF Failed(s1) THEN s1
             ELSE ProcessEntries(cc, currentTemplatePath, currentOutPath,
                                 IF expanded = <<>> THEN ctx
                                 ELSE expanded[Len(expanded)].ctx,
                                 entries, i + 1, s1)

\* the expansions of an entry are gone through a second time
ProcessEntriesTwice(cc, currentTemplatePath, currentOutPath, ctx, entries, i, st) ==
    IF i > Len(entries) THEN st
    ELSE LET expanded == expandPath(entries[i].name, ctx)
             s0 == ProcessItems(cc, currentTemplatePath, currentOutPath,
                                entries[i], expanded, 1, st)
             s1 == IF Failed(s0) THEN s0
                   ELSE ProcessItems(cc, currentTemplatePath, currentOutPath,
                                     entries[i], expanded, 1, s0)
         IN  IF Failed(s1) THEN s1
             ELSE ProcessEntries(cc, currentTemplatePath, currentOutPath, ctx,
                                 entries, i + 1, s1)

\* for _, entry := range entries
ProcessEntries(cc, currentTemplatePath, currentOutPath, ctx, entries, i, st) ==
    IF i > Len(entries) THEN st
    ELSE LET expanded == expandPath(entries[i].name, ctx)
             s1 == ProcessItems(cc, currentTemplatePath, currentOutPath,
                                entries[i], expanded, 1, st)
         IN  IF Failed(s1) THEN s1
             ELSE ProcessEntries(cc, currentTemplatePath, currentOutPath, ctx,
                                 entries, i + 1, s1)

ProcessDir(cc, currentTemplatePath, currentOutPath, ctx, st) ==
    LET rd == ReadDirTemplate(cc, st, currentTemplatePath)
    IN  IF Failed(rd.st) THEN rd.st
        ELSE ProcessEntries(cc, currentTemplatePath, currentOutPath, ctx,
                            rd.entries, 1, rd.st)

-----------------------------------------------------------------------------
(* The models, template segments and contexts of the runs                  *)

\* eres before expandPath was applied
NoResult == <<[value |-> <<"\n">>, ctx |-> Nil]>>

\* a feature: name n, table t
Feature(n, t) == Map(<<<<<<"n">>, Str(n)>>, <<<<"t">>, Str(t)>>>>)

\* a feature that also holds the nested map d: {v: "w"}
FeatureNested(n, t) ==
    Map(<<<<<<"n">>, Str(n)>>, <<<<"t">>, Str(t)>>,
          <<<<"d">>, Map(<<<<<<"v">>, Str(<<"w">>)>>>>)>>>>)

\* a model: p project name, f features, c a comment, o owner, e an empty
\* sequence, s a sequence of scalars, g a sequence of mixed elements, h a
\* flag, x null
ModelOf(f, c) ==
    Map(<<<<<<"p">>, Str(<<"P">>)>>,
          <<<<"f">>, List(f)>>,
          <<<<"c">>, Str(c)>>,
          <<<<"o">>, Map(<<<<<<"n">>, Str(<<"o">>)>>>>)>>,
          <<<<"e">>, List(<<>>)>>,
          <<<<"s">>, List(<<Str(<<"u">>), Str(<<"v">>)>>)>>,
          <<<<"g">>, List(<<Feature(<<"a">>, <<"X">>), Str(<<"u">>),
                            Map(<<<<<<"t">>, Str(<<"Y">>)>>>>),
                            Feature(<<"b">>, <<"Y">>)>>)>>,
          <<<<"h">>, Bool(FALSE)>>,
          <<<<"x">>, Nil>>>>)

\* features a (table X, with a nested map) and b (empty table)
ModelA ==
    ModelOf(<<FeatureNested(<<"a">>, <<"X">>), Feature(<<"b">>, <<>>)>>, <<"X">>)
\* the tables and the comment changed: a's is now empty, b's is Y
ModelB == ModelOf(<<Feature(<<"a">>, <<>>), Feature(<<"b">>, <<"Y">>)>>, <<>>)
\* a's table and the comment are white space only
ModelC == ModelOf(<<Feature(<<"a">>, <<" ">>)>>, <<" ">>)
\* two features of the same name
ModelE ==
    ModelOf(<<Feature(<<"a">>, <<"X">>), Feature(<<"a">>, <<>>)>>, <<"X">>)

Models == {ModelA, ModelB, ModelC, ModelE}

\* "{{ group }}"
PH(group) == LB \o group \o RB

Segments ==
    { <<"r">>,
      PH(<<"p">>),
      PH(<<" ", "p", " ">>),
      PH(<<"f", ".", "n">>),
      PH(<<"n">>) \o <<".", "g", "o">> \o TmplSuffix,
      PH(<<"e", ".", "n">>),
      PH(<<"e">>),
      PH(<<"s">>),
      PH(<<"f">>),
      PH(<<"o">>),
      PH(<<"o", ".", "n">>),
      PH(<<"g", ".", "n">>),
      PH(<<"f", ".", "0", ".", "n">>),
      PH(<<"f", ".", "d", ".", "v">>),
      PH(<<"w">>),
      PH(<<"x">>),
      PH(<<"h">>),
      PH(<<"p">>) \o <<"-">> \o PH(<<"o", ".", "n">>),
      PH(<<"o", ".", "n">>) \o <<"-">> \o PH(<<"p">>),
      PH(<<"f", ".", "n">>) \o <<"-">> \o PH(<<"t">>),
      PH(<<"f", ".", "n">>) \o <<"-">> \o PH(<<"s">>),
      PH(<<"f", ".", "n">>) \o <<"-">> \o PH(<<"g", ".", "n">>),
      PH(<<"n">>) \o <<"-">> \o PH(<<"n">>),
      PH(<<"p">>) \o <<"-">> \o PH(<<"f", ".", "n">>),
      PH(<<"f", ".", "n">>) \o <<"-">> \o PH(<<"k", ".", "m">>) }

\* the values reachable in v: v, its map values, its list elements
RECURSIVE SubValues(_)
SubValues(v) ==
    {v} \cup UNION {SubValues(v.kv[i][2]) : i \in 1..Len(v.kv)}
        \cup UNION {SubValues(v.el[i]) : i \in 1..Len(v.el)}

\* a context whose features each hold a sequence k of two maps
CtxGrid ==
    LET K == List(<<Map(<<<<<<"m">>, Str(<<"0">>)>>>>),
                    Map(<<<<<<"m">>, Str(<<"1">>)>>>>)>>)
        F(n) == Map(<<<<<<"n">>, Str(n)>>, <<<<"k">>, K>>>>)
    IN  Map(<<<<<<"p">>, Str(<<"P">>)>>,
              <<<<"f">>, List(<<F(<<"a">>), F(<<"b">>)>>)>>>>)

\* a context whose sequence g holds a map, a sequence of one map, a string
\* and a map without n
CtxNested ==
    Map(<<<<<<"g">>,
            List(<<Map(<<<<<<"n">>, Str(<<"a">>)>>>>),
                   List(<<Map(<<<<<<"n">>, Str(<<"b">>)>>>>)>>),
                   Str(<<"u">>),
                   Map(<<<<<<"t">>, Str(<<"Y">>)>>>>)>>)>>>>)

Contexts == UNION {SubValues(m) : m \in Models} \cup {CtxGrid, CtxNested}

-----------------------------------------------------------------------------
(* The template trees and output stores of the runs                        *)

NameP == PH(<<"p">>)
NameFN == PH(<<"f", ".", "n">>)
NameN == PH(<<"n">>)

\* {{p}}/r, {{p}}/{{f.n}}/{{n}}.tmpl: one file per feature, holding its table
TemplateA ==
    MkFS({ <<<<NameP>>, Dir>>,
           <<<<NameP, <<"r">>>>, File(<<Text(<<"r", " ">>), Root(<<<<"p">>>>)>>)>>,
           <<<<NameP, NameFN>>, Dir>>,
           <<<<NameP, NameFN, NameN \o TmplSuffix>>,
             File(<<Dot(<<<<"t">>>>)>>)>> })

\* {{p}}/{{f.n}}/{{n}}: the same without the .tmpl suffix and without r
TemplateB ==
    MkFS({ <<<<NameP>>, Dir>>,
           <<<<NameP, NameFN>>, Dir>>,
           <<<<NameP, NameFN, NameN>>, File(<<Dot(<<<<"t">>>>)>>)>> })

\* d/e.tmpl renders empty (the flag h is false); r does not; u.tmpl holds
\* the model's comment
TemplateC ==
    MkFS({ <<<<<<"d">>>>, Dir>>,
           <<<<<<"u">> \o TmplSuffix>>, File(<<Dot(<<<<"c">>>>)>>)>>,
           <<<<<<"d">>, <<"e">> \o TmplSuffix>>,
             File(<<If(<<<<"h">>>>, <<"x">>)>>)>>,
           <<<<<<"r">>>>, File(<<Text(<<"r">>)>>)>> })

\* a directory over the field of an empty sequence, one over the empty
\* sequence itself, and a sibling file
TemplateD ==
    MkFS({ <<<<PH(<<"e", ".", "n">>)>>, Dir>>,
           <<<<PH(<<"e", ".", "n">>), <<"w">>>>, File(<<Text(<<"w">>)>>)>>,
           <<<<PH(<<"e">>)>>, Dir>>,
           <<<<PH(<<"e">>), <<"w">>>>, File(<<Text(<<"w">>)>>)>>,
           <<<<PH(<<"s">>) \o <<".", "g">>>>, File(<<Text(<<"g">>)>>)>>,
           <<<<<<"r">>>>, File(<<Text(<<"r">>)>>)>> })

\* b refers to a key the model lacks
TemplateE ==
    MkFS({ <<<<<<"a">>>>, File(<<Text(<<"a">>)>>)>>,
           <<<<<<"b">>>>, File(<<Dot(<<<<"w">>>>)>>)>>,
           <<<<<<"c">>>>, File(<<Text(<<"c">>)>>)>> })

\* the directory o and the file {{o.n}} expand to the same output path
TemplateF ==
    MkFS({ <<<<<<"o">>>>, Dir>>,
           <<<<<<"o">>, <<"e">>>>, File(<<>>)>>,
           <<<<PH(<<"o", ".", "n">>)>>, File(<<Text(<<"X">>)>>)>> })

\* {{f.d.v}}/a, {{f.d.v}}/r: a directory per feature that has the nested map
\* d, named by d's value; a renders the project's name and d's value, r the
\* feature's name and the project's
TemplateG ==
    MkFS({ <<<<PH(<<"f", ".", "d", ".", "v">>)>>, Dir>>,
           <<<<PH(<<"f", ".", "d", ".", "v">>), <<"a">>>>,
             File(<<Root(<<<<"p">>>>), Dot(<<<<"v">>>>)>>)>>,
           <<<<PH(<<"f", ".", "d", ".", "v">>), <<"r">>>>,
             File(<<Dot(<<<<"n">>>>), Root(<<<<"p">>>>)>>)>> })

\* d/k/e renders empty (the flag h is false): k, and then d, get nothing
TemplateH ==
    MkFS({ <<<<<<"d">>>>, Dir>>,
           <<<<<<"d">>, <<"k">>>>, Dir>>,
           <<<<<<"d">>, <<"k">>, <<"e">>>>,
             File(<<If(<<<<"h">>>>, <<"x">>)>>)>> })

\* {{f.n}}/{{n}} and the sibling {{p}}: a directory per feature, and after
\* it a file whose name is a key of the model
TemplateI ==
    MkFS({ <<<<NameFN>>, Dir>>,
           <<<<NameFN, NameN>>, File(<<Dot(<<<<"n">>>>)>>)>>,
           <<<<NameP>>, File(<<Root(<<<<"p">>>>)>>)>> })

Templates ==
    {TemplateA, TemplateB, TemplateC, TemplateD, TemplateE, TemplateF, TemplateG,
     TemplateH, TemplateI}

\* the empty output root
StoreEmpty == MkFS({})

\* an empty directory d, and a directory k holding a file
StoreD ==
    MkFS({ <<<<<<"d">>>>, Dir>>,
           <<<<<<"k">>>>, Dir>>,
           <<<<<<"k">>, <<"z">>>>, File(<<"z">>)>> })

\* files at u.tmpl, d/e.tmpl and P/z
StoreE ==
    MkFS({ <<<<<<"d">>>>, Dir>>,
           <<<<<<"u">> \o TmplSuffix>>, File(<<"z">>)>>,
           <<<<<<"d">>, <<"e">> \o TmplSuffix>>, File(<<"z">>)>>,
           <<<<<<"P">>>>, Dir>>,
           <<<<<<"P">>, <<"z">>>>, File(<<"z">>)>> })

Stores == {StoreEmpty, StoreD, StoreE}

-----------------------------------------------------------------------------
(* Runs of ProcessDir on the output store *)

NoRun ==
    [ran |-> FALSE, model |-> Nil, dry |-> FALSE, fault |-> 0, err |-> FALSE,
     log |-> <<>>]

\* the <<template path, output path>> of the files a run wrote
Written(log) ==
    {<<log[i].t, log[i].path>> :
        i \in {j \in 1..Len(log) : log[j].op = "WriteFile" /\ log[j].ok}}

\* a non-dry run that returned no error
Succeeded(run) == run.ran /\ ~run.err /\ ~run.dry

\* what is kept of the run before the last one: whether it succeeded, and
\* then its model and the files it wrote
Summary(run) ==
    IF Succeeded(run)
    THEN [ok |-> TRUE, model |-> run.model, written |-> Written(run.log)]
    ELSE [ok |-> FALSE, model |-> Nil, written |-> {}]

Init ==
    /\ tmpl \in Templates
    /\ out \in Stores
    /\ before = out
    /\ last = NoRun
    /\ prev = Summary(NoRun)
    /\ seg = <<>> /\ ectx = Nil /\ eres = NoResult
    /\ root = Nil /\ created = {} /\ todo = <<>>

\* cc.ProcessDir(templateDir, outputDir, model) with cc.Model = model.
\* The caller halts on a storage failure: no run follows a run in which a
\* store call failed.
RunWith(faults) ==
    /\ last.fault = 0
    /\ \E model \in Models, dry \in BOOLEAN, fault \in faults :
        \E r \in {ProcessDir([Model |-> model, DryRun |-> dry,
                              TemplateFS |-> tmpl, fault |-> fault],
                             <<>>, <<>>, model,
                             [fs |-> out, err |-> FALSE, log |-> <<>>, n |-> 0])} :
            /\ fault <= r.n
            /\ out' = r.fs
            /\ before' = out
            /\ last' = [ran |-> TRUE, model |-> model, dry |-> dry,
                        fault |-> fault, err |-> r.err, log |-> r.log]
            /\ prev' = Summary(last)
            /\ UNCHANGED <<tmpl, seg, ectx, eres, root, created, todo>>

\* a run on a store that works
Run == RunWith({0})

\* a run in which one store call fails
RunFaulty == RunWith(1..MaxFaultAt)

Next == Run

Spec == Init /\ [][Next]_vars

NextFault == Run \/ RunFaulty

SpecFault == Init /\ [][NextFault]_vars

-----------------------------------------------------------------------------
(* Expansion of one segment, as a state machine over its inputs *)

InitExpand ==
    /\ seg \in Segments
    /\ ectx \in Contexts
    /\ eres = NoResult
    /\ tmpl = <<>> /\ out = <<>> /\ before = <<>>
    /\ last = <<>> /\ prev = <<>>
    /\ root = Nil /\ created = {} /\ todo = <<>>

Expand ==
    /\ eres = NoResult
    /\ eres' = expandPath(seg, ectx)
    /\ UNCHANGED <<seg, ectx, tmpl, out, before, last, prev, root, created, todo>>

SpecExpand == InitExpand /\ [][Expand]_vars

-----------------------------------------------------------------------------
(* The earlier segment expander: evaluatePathNodes, expandPathSegment *)

Digits == <<"0", "1", "2", "3", "4", "5", "6", "7", "8", "9">>

IsDigit(c) == \E d \in 1..Len(Digits) : Digits[d] = c

RECURSIVE Number(_)
Number(s) ==
    IF s = <<>> THEN 0
    ELSE Number(Front(s)) * Len(Digits)
           + (CHOOSE d \in 1..Len(Digits) : Digits[d] = s[Len(s)]) - 1

\* strconv.Atoi(part): an optional sign and decimal digits
Atoi(part) ==
    LET signed == part # <<>> /\ part[1] \in {"-", "+"}
        digits == IF signed THEN Tail(part) ELSE part
        ok == digits # <<>> /\ \A i \in 1..Len(digits) : IsDigit(digits[i])
    IN  [ok |-> ok,
         n |-> IF ~ok THEN 0
               ELSE IF part[1] = "-" THEN 0 - Number(digits)
               ELSE Number(digits)]

\* the nodes that one node yields under one path component
NodesOf(n, part) ==
    LET cur == n.Value
        idx == Atoi(part)
        \* broadcast field access over array elements
        Over[i \in 0..Len(cur.el)] ==
            IF i = 0 THEN <<>>
            ELSE Over[i - 1]
                   \o IF cur.el[i].t = "map" /\ HasKey(cur.el[i], part)
                      THEN <<[Value |-> Get(cur.el[i], part), Ctx |-> cur.el[i]]>>
                      ELSE <<>>
    IN  CASE cur.t = "map" ->
                IF HasKey(cur, part)
                THEN <<[Value |-> Get(cur, part), Ctx |-> n.Ctx]>>
                ELSE <<>>
          [] cur.t = "list" ->
                IF idx.ok
                THEN IF idx.n >= 0 /\ idx.n < Len(cur.el)
                     THEN <<[Value |-> cur.el[idx.n + 1], Ctx |-> cur.el[idx.n + 1]]>>
                     ELSE <<>>
                ELSE Over[Len(cur.el)]
          [] OTHER -> <<>>

\* for _, part := range parts
RECURSIVE WalkParts(_, _)
WalkParts(nodes, parts) ==
    IF parts = <<>> THEN [nodes |-> nodes, ok |-> TRUE]
    ELSE LET Acc[k \in 0..Len(nodes)] ==
                 IF k = 0 THEN <<>>
                 ELSE Acc[k - 1] \o NodesOf(nodes[k], Head(parts))
             next == Acc[Len(nodes)]
         IN  IF next = <<>>
             THEN IF Len(nodes) > 0 THEN [nodes |-> <<>>, ok |-> TRUE]
                  ELSE [nodes |-> <<>>, ok |-> FALSE]
             ELSE WalkParts(next, Tail(parts))

\* the traversal that reports failure when a component matches nothing
evaluatePathNodesFailing(v, expr) ==
    LET e == TrimSpace(expr)
        r == WalkParts(<<[Value |-> v, Ctx |-> v]>>, Split(e, "."))
    IN  IF e = <<>> \/ e = <<".">>
        THEN [nodes |-> <<[Value |-> v, Ctx |-> v]>>, ok |-> TRUE]
        ELSE IF r.nodes = <<>> THEN [nodes |-> <<>>, ok |-> FALSE]
        ELSE r

evaluatePathNodes(v, expr) ==
    LET e == TrimSpace(expr)
    IN  IF e = <<>> \/ e = <<".">>
        THEN [nodes |-> <<[Value |-> v, Ctx |-> v]>>, ok |-> TRUE]
        ELSE WalkParts(<<[Value |-> v, Ctx |-> v]>>, Split(e, "."))

\* evaluateModelPath: the same traversal without contexts; it fails when a
\* component matches nothing
RECURSIVE WalkModel(_, _)
WalkModel(nodes, parts) ==
    IF parts = <<>>
    THEN [ok |-> TRUE,
          v |-> IF Len(nodes) = 1 THEN nodes[1].Value
                ELSE List([k \in 1..Len(nodes) |-> nodes[k].Value])]
    ELSE LET Acc[k \in 0..Len(nodes)] ==
                 IF k = 0 THEN <<>>
                 ELSE Acc[k - 1] \o NodesOf(nodes[k], Head(parts))
         IN  IF Acc[Len(nodes)] = <<>> THEN [ok |-> FALSE, v |-> Nil]
             ELSE WalkModel(Acc[Len(nodes)], Tail(parts))

evaluateModelPath(v, path) ==
    LET e == TrimSpace(path)
    IN  IF e = <<>> \/ e = <<".">> THEN [ok |-> TRUE, v |-> v]
        ELSE WalkModel(<<[Value |-> v, Ctx |-> v]>>, Split(e, "."))

NameKey == <<"n", "a", "m", "e">>

\* toString: a map is named by its "name"; without one it is an error
RECURSIVE toString(_)
toString(v) ==
    CASE v.t = "nil" -> [err |-> FALSE, s |-> <<>>]
      [] v.t \in {"str", "bool"} -> [err |-> FALSE, s |-> v.s]
      [] v.t = "map" ->
            IF HasKey(v, NameKey) THEN toString(Get(v, NameKey))
            ELSE [err |-> TRUE, s |-> <<>>]
      [] OTHER -> [err |-> FALSE, s |-> GoPrint(v)]

\* the field chain .a.b on v where a missing key prints as <no value>
RECURSIVE Lookup(_, _)
Lookup(v, path) ==
    IF path = <<>> THEN [err |-> FALSE, v |-> v]
    ELSE IF v.t = "map"
         THEN IF HasKey(v, Head(path)) THEN Lookup(Get(v, Head(path)), Tail(path))
              ELSE IF Len(path) = 1 THEN [err |-> FALSE, v |-> Nil]
              ELSE [err |-> TRUE, v |-> Nil]
         ELSE [err |-> TRUE, v |-> Nil]

\* text/template on "{{ expr }}" with ctx as dot: a field chain is looked
\* up, a number is itself, a bare word is an undefined function
TemplateExpr(expr, ctx) ==
    IF expr # <<>> /\ expr[1] = "."
    THEN LET f == Lookup(ctx, Tail(Split(expr, ".")))
         IN  [err |-> f.err, v |-> Str(PrintValue(f.v))]
    ELSE IF Atoi(expr).ok /\ IsDigit(expr[1]) THEN [err |-> FALSE, v |-> Str(expr)]
    ELSE [err |-> TRUE, v |-> Nil]

\* evalExpression: the context, then the root model, then text/template
evalExpression(expr, rootModel, ctx) ==
    IF evaluateModelPath(ctx, expr).ok
    THEN [err |-> FALSE, v |-> evaluateModelPath(ctx, expr).v]
    ELSE IF evaluateModelPath(rootModel, expr).ok
    THEN [err |-> FALSE, v |-> evaluateModelPath(rootModel, expr).v]
    ELSE TemplateExpr(expr, ctx)

\* templateExprRe, {{[^}]+}}: where the match that starts at i ends, or 0
ExprEnd(s, i) ==
    IF ~HasPrefixAt(s, i, LB) THEN 0
    ELSE LET j == IndexFrom(s, i + 2, "}")
         IN  IF j = 0 \/ j = i + 2 \/ ~HasPrefixAt(s, j, RB) THEN 0
             ELSE j + 1

\* templateExprRe.FindAllStringIndex(segment, -1) as <<first, last>> pairs
RECURSIVE ExprsFrom(_, _)
ExprsFrom(s, i) ==
    IF i > Len(s) THEN <<>>
    ELSE IF ExprEnd(s, i) = 0 THEN ExprsFrom(s, i + 1)
    ELSE <<<<i, ExprEnd(s, i)>>>> \o ExprsFrom(s, ExprEnd(s, i) + 1)

\* one expression of the segment, evaluated from the segment's context
ExprVal(raw, rootModel, ctx) ==
    LET expr == TrimSpace(SubSeq(raw, 3, Len(raw) - 2))
        r == evaluatePathNodes(ctx, expr)
        val == evalExpression(expr, rootModel, ctx)
        str == toString(val.v)
    IN  IF r.ok
        THEN [err |-> FALSE, isList |-> TRUE, scalar |-> <<>>,
              list |-> [k \in 1..Len(r.nodes) |-> r.nodes[k].Value],
              ctxs |-> [k \in 1..Len(r.nodes) |->
                          IF Len(r.nodes) > 1 /\ r.nodes[k].Ctx = Nil
                          THEN r.nodes[k].Value ELSE r.nodes[k].Ctx]]
        ELSE [err |-> val.err \/ str.err, isList |-> FALSE, scalar |-> str.s,
              list |-> <<>>, ctxs |-> <<>>]

\* the expansions of one accumulated expansion a under one expression e,
\* followed by the literal lit
Combine(a, e, lit) ==
    IF e.isList
    THEN [err |-> \E k \in 1..Len(e.list) : toString(e.list[k]).err,
          segs |-> [k \in 1..Len(e.list) |->
                       [Rendered |-> a.Rendered \o toString(e.list[k]).s \o lit,
                        Ctx |-> e.ctxs[k]]]]
    ELSE [err |-> FALSE,
          segs |-> <<[Rendered |-> a.Rendered \o e.scalar \o lit, Ctx |-> a.Ctx]>>]

expandPathSegment(segment, rootModel, ctx) ==
    LET parts == ExprsFrom(segment, 1)
        n == Len(parts)
        exprs == [k \in 1..n |->
                    ExprVal(SubSeq(segment, parts[k][1], parts[k][2]),
                            rootModel, ctx)]
        literals == [k \in 1..(n + 1) |->
                       SubSeq(segment,
                              IF k = 1 THEN 1 ELSE parts[k - 1][2] + 1,
                              IF k = n + 1 THEN Len(segment)
                              ELSE parts[k][1] - 1)]
        \* acc after the first k expressions
        Acc[k \in 0..n] ==
            IF k = 0
            THEN [err |-> FALSE, segs |-> <<[Rendered |-> literals[1], Ctx |-> ctx]>>]
            ELSE LET acc == Acc[k - 1]
                     Over[j \in 0..Len(acc.segs)] ==
                         IF j = 0 THEN [err |-> FALSE, segs |-> <<>>]
                         ELSE LET c == Combine(acc.segs[j], exprs[k], literals[k + 1])
                              IN  [err |-> Over[j - 1].err \/ c.err,
                                   segs |-> Over[j - 1].segs \o c.segs]
                 IN  IF acc.err THEN acc ELSE Over[Len(acc.segs)]
    IN  IF n = 0 THEN [err |-> FALSE, segs |-> <<[Rendered |-> segment, Ctx |-> ctx]>>]
        ELSE IF \E k \in 1..n : exprs[k].err THEN [err |-> TRUE, segs |-> <<>>]
        ELSE IF Acc[n].err THEN [err |-> TRUE, segs |-> <<>>]
        ELSE Acc[n]

\* a context whose features are named by "name"
CtxNamed ==
    LET F(n, t) == Map(<<<<NameKey, Str(n)>>, <<<<"t">>, Str(t)>>>>)
    IN  Map(<<<<<<"p">>, Str(<<"P">>)>>,
              <<<<"f">>, List(<<F(<<"a">>, <<"X">>), F(<<"b">>, <<>>)>>)>>,
              <<<<"e">>, List(<<>>)>>>>)

\* segments of the earlier expander's syntax
SegmentsEarlier ==
    Segments \cup { PH(<<"f", ".", "1", ".", "n">>),
                    PH(<<"f", ".", "1">>),
                    PH(<<"f", ".", "-", "1", ".", "n">>),
                    PH(<<"e", ".", "0">>),
                    PH(<<".">>),
                    PH(<<"w", ".", "n">>),
                    PH(<<"o", ".", "w">>) }

InitSegment ==
    /\ seg \in SegmentsEarlier
    /\ root \in Models \cup {CtxGrid, CtxNamed}
    /\ ectx \in SubValues(root)
    /\ eres = <<>>
    /\ tmpl = <<>> /\ out = <<>> /\ before = <<>>
    /\ last = <<>> /\ prev = <<>>
    /\ created = {} /\ todo = <<>>

\* eres holds the pair (segments, error) that the call returned
ExpandSegment ==
    /\ eres = <<>>
    /\ eres' = <<expandPathSegment(seg, root, ectx)>>
    /\ UNCHANGED <<seg, ectx, root, tmpl, out, before, last, prev, created, todo>>

SpecSegment == InitSegment /\ [][ExpandSegment]_vars

-----------------------------------------------------------------------------
(* The earlier walker's cleanup: removeEmptyCreatedDirs *)

MaxTracked == 4

\* len(dir) of a path under the output root: every name and its separator
RECURSIVE PathLen(_)
PathLen(p) == IF p = <<>> THEN 0 ELSE Len(Head(p)) + 1 + PathLen(Tail(p))

\* for j := i + 1; j < len(dirs); j++ { if len(dirs[i]) < len(dirs[j]) swap }
RECURSIVE SortInner(_, _, _)
SortInner(dirs, i, j) ==
    IF j > Len(dirs) THEN dirs
    ELSE IF PathLen(dirs[i]) < PathLen(dirs[j])
         THEN SortInner([dirs EXCEPT ![i] = dirs[j], ![j] = dirs[i]], i, j + 1)
         ELSE SortInner(dirs, i, j + 1)

\* for i := 0; i < len(dirs); i++
RECURSIVE SortOuter(_, _)
SortOuter(dirs, i) ==
    IF i > Len(dirs) THEN dirs
    ELSE SortOuter(SortInner(dirs, i, i + 1), i + 1)

\* the directories are left in the order the map's iteration gave
KeepOrder(dirs) == dirs

\* the sort of dirs, longest path first
SortByLength(dirs) == SortOuter(dirs, 1)

\* for _, dir := range dirs: a directory that cannot be read is skipped, an
\* empty one is removed, and a failed removal is passed over
RECURSIVE RemoveLoop(_, _, _)
RemoveLoop(cc, st, dirs) ==
    IF dirs = <<>> THEN st
    ELSE LET r == ReadDirOut(cc, st, <<>>, Head(dirs))
             rm == Remove(cc, [r.st EXCEPT !.err = FALSE], <<>>, Head(dirs))
         IN  IF Failed(r.st)
             THEN RemoveLoop(cc, [r.st EXCEPT !.err = FALSE], Tail(dirs))
             ELSE IF Len(r.entries) = 0
             THEN RemoveLoop(cc, [rm EXCEPT !.err = FALSE], Tail(dirs))
             ELSE RemoveLoop(cc, r.st, Tail(dirs))

\* removeEmptyCreatedDirs on the store fs, the map's iteration giving dirs
removeEmptyCreatedDirs(fs, dirs) ==
    RemoveLoop([fault |-> 0],
               [fs |-> fs, err |-> FALSE, log |-> <<>>, n |-> 0],
               SortByLength(dirs))

\* a store of nested directories: e is empty, n holds a file, k holds e
\* which holds d, q holds the empty e, and the long name holds nothing
StoreTree ==
    MkFS({ <<<<<<"e">>>>, Dir>>,
           <<<<<<"n">>>>, Dir>>,
           <<<<<<"n">>, <<"r">>>>, File(<<"r">>)>>,
           <<<<<<"k">>>>, Dir>>,
           <<<<<<"k">>, <<"e">>>>, Dir>>,
           <<<<<<"k">>, <<"e">>, <<"d">>>>, Dir>>,
           <<<<<<"q">>>>, Dir>>,
           <<<<<<"q">>, <<"e">>>>, Dir>>,
           <<<<<<"a", "b", "c", "d", "e">>>>, Dir>> })

\* the same with a file in k/e/d
StoreTreeFull == Put(StoreTree, <<<<"k">>, <<"e">>, <<"d">>>>, File(<<"r">>))

\* the paths that may be tracked: directories, a file, and a path that is
\* not in the store
Trackable ==
    { <<<<"e">>>>, <<<<"n">>>>, <<<<"n">>, <<"r">>>>, <<<<"k">>>>,
      <<<<"k">>, <<"e">>>>, <<<<"k">>, <<"e">>, <<"d">>>>,
      <<<<"q">>>>, <<<<"a", "b", "c", "d", "e">>>>, <<<<"m">>>> }

\* the orders in which a map's iteration can give the elements of S
Orders(S) ==
    {f \in [1..Cardinality(S) -> S] :
        \A i, j \in 1..Cardinality(S) : i # j => f[i] # f[j]}

InitRemove ==
    /\ out \in {StoreTree, StoreTreeFull}
    /\ before = out
    /\ created \in {S \in SUBSET Trackable : Cardinality(S) <= MaxTracked}
    /\ todo \in Orders(created)
    /\ last = NoRun /\ prev = Summary(NoRun)
    /\ tmpl = <<>>
    /\ seg = <<>> /\ ectx = Nil /\ eres = NoResult /\ root = Nil

\* removeEmptyCreatedDirs(createdDirs); last keeps the calls it made
RemoveEmptyCreatedDirs ==
    /\ ~last.ran
    /\ \E r \in {removeEmptyCreatedDirs(out, todo)} :
          /\ out' = r.fs
          /\ last' = [NoRun EXCEPT !.ran = TRUE, !.log = r.log]
    /\ UNCHANGED <<tmpl, before, prev, seg, ectx, eres, root, created, todo>>

SpecRemove == InitRemove /\ [][RemoveEmptyCreatedDirs]_vars

-----------------------------------------------------------------------------
(* The earlier walker's loader: normalize *)

\* an integer as yaml.Unmarshal gives it, s its decimal digits
IntOf(s) == [t |-> "int", s |-> s, kv |-> <<>>, el |-> <<>>]

\* map[any]any: kv is a sequence of <<key, value>> with distinct keys, each
\* key a string, an integer or a boolean
AnyMap(kv) == [t |-> "anymap", s |-> <<>>, kv |-> kv, el |-> <<>>]

\* fmt.Sprintf("%v", k) of a key
KeyString(k) == k.s

\* the position whose value m[KeyString(k)] holds after the loop: where two
\* keys have one string form, the one the map's iteration gave last
Winner(kv, i, lastWins) ==
    LET same == {j \in 1..Len(kv) : KeyString(kv[j][1]) = KeyString(kv[i][1])}
    IN  IF lastWins THEN CHOOSE j \in same : \A x \in same : x <= j
        ELSE CHOOSE j \in same : \A x \in same : j <= x

\* the nested maps are returned as they are
normalizeShallow(v, lastWins) ==
    CASE v.t = "anymap" ->
            LET firsts == SelectSeq([i \in 1..Len(v.kv) |-> i],
                                    LAMBDA i : Winner(v.kv, i, FALSE) = i)
            IN  Map([n \in 1..Len(firsts) |->
                        <<KeyString(v.kv[firsts[n]][1]),
                          v.kv[Winner(v.kv, firsts[n], lastWins)][2]>>])
      [] OTHER -> v

RECURSIVE normalize(_, _)
normalize(v, lastWins) ==
    CASE v.t = "anymap" ->
            LET firsts == SelectSeq([i \in 1..Len(v.kv) |-> i],
                                    LAMBDA i : Winner(v.kv, i, FALSE) = i)
            IN  Map([n \in 1..Len(firsts) |->
                        <<KeyString(v.kv[firsts[n]][1]),
                          normalize(v.kv[Winner(v.kv, firsts[n], lastWins)][2],
                                    lastWins)>>])
      [] v.t = "map" ->
            Map([i \in 1..Len(v.kv) |->
                    <<v.kv[i][1], normalize(v.kv[i][2], lastWins)>>])
      [] v.t = "list" ->
            List([i \in 1..Len(v.el) |-> normalize(v.el[i], lastWins)])
      [] OTHER -> v

\* the keys and the values of the parsed configurations
RawKeys ==
    {Str(<<"1">>), IntOf(<<"1">>), Str(<<"n">>), Bool(TRUE),
     Str(<<"t", "r", "u", "e">>)}

RawLeaves ==
    {Str(<<"a">>), IntOf(<<"7">>), Nil,
     List(<<AnyMap(<<<<IntOf(<<"1">>), Str(<<"b">>)>>>>), Str(<<"u">>)>>),
     AnyMap(<<<<Str(<<"n">>), AnyMap(<<<<Bool(TRUE), IntOf(<<"7">>)>>>>)>>>>),
     Map(<<<<<<"n">>, List(<<Str(<<"b">>), Str(<<"a">>)>>)>>>>)}

\* a map of two keys, and the values it holds
RawValues ==
    {AnyMap(<<<<k1, v1>>, <<k2, v2>>>>) :
        <<k1, k2>> \in {p \in RawKeys \X RawKeys : p[1] # p[2]},
        <<v1, v2>> \in {p \in RawLeaves \X RawLeaves : p[1] # p[2]}}
      \cup RawLeaves

InitNormalize ==
    /\ root \in RawValues
    /\ eres = <<>>
    /\ seg = <<>> /\ ectx = Nil
    /\ tmpl = <<>> /\ out = <<>> /\ before = <<>>
    /\ last = <<>> /\ prev = <<>>
    /\ created = {} /\ todo = <<>>

\* normalize(v); eres holds the value returned
Normalize ==
    /\ eres = <<>>
    /\ \E lastWins \in BOOLEAN : eres' = <<normalize(root, lastWins)>>
    /\ UNCHANGED <<root, seg, ectx, tmpl, out, before, last, prev, created, todo>>

SpecNormalize == InitNormalize /\ [][Normalize]_vars

-----------------------------------------------------------------------------
(* The expanded entries of the template under a model: one pair for each   *)
(* entry and each expansion of its name, with the path it is joined to     *)

RECURSIVE PairsUnder(_, _, _, _)
PairsUnder(tfs, tp, op, ctx) ==
    UNION {LET expanded == expandPath(Base(q), ctx)
           IN  UNION {LET o == Join(op, expanded[i].value)
                      IN  {[t |-> q, o |-> o, ctx |-> expanded[i].ctx,
                            isDir |-> tfs[q].isDir, i |-> i]}
                          \cup IF tfs[q].isDir
                               THEN PairsUnder(tfs, q, o, expanded[i].ctx)
                               ELSE {}
                      : i \in 1..Len(expanded)}
           : q \in Children(tfs, tp)}

Pairs(model) == PairsUnder(tmpl, <<>>, <<>>, model)

\* where the output of a pair goes: a file's name loses a trailing .tmpl
OutputPath(pr) == IF pr.isDir THEN pr.o ELSE TrimTmpl(pr.o)

IsPrefix(q, p) == Len(q) <= Len(p) /\ SubSeq(p, 1, Len(q)) = q

\* the last run was not a dry run
RealRun == last.ran /\ ~last.dry

\* the entries of the last run's log with the given operation
Logged(op) == {i \in 1..Len(last.log) : last.log[i].op = op}

-----------------------------------------------------------------------------
(* Properties of a run *)

\* C1: a run that is not a dry run removes no directory that existed before
\* the run: every directory of the store before the run is a directory of the
\* store after it.
C1_PreExistingDirsKept ==
    RealRun => \A p \in DOMAIN before : before[p].isDir => IsDirAt(out, p)

\* C2: a run that is not a dry run leaves alone every path that is neither the
\* output path of an expanded template entry nor inside one: such a path is
\* in the store after the run exactly when it was before, with the same
\* content.
C2_OtherPathsUntouched ==
    RealRun =>
        \A p \in DOMAIN before \cup DOMAIN out :
            (\A pr \in Pairs(last.model) : ~IsPrefix(OutputPath(pr), p))
                => /\ p \in DOMAIN before
                   /\ p \in DOMAIN out
                   /\ before[p] = out[p]

\* C3: a dry run changes nothing in the output store: the store after the
\* run is the store before it.
C3_DryRunChangesNothing == (last.ran /\ last.dry) => out = before

\* a dry run over a store that holds files went through a directory, a file
\* it would write and a file it would skip
C3_Witness ==
    /\ last.ran /\ last.dry /\ ~last.err
    /\ before # StoreEmpty
    /\ Logged("[DIR]") # {} /\ Logged("[FILE]") # {} /\ Logged("[SKIP]") # {}

\* C4: when a run that is not a dry run has succeeded, a second run with the
\* same template and model on the store it left succeeds too and leaves the
\* store as it found it.
C4_SecondRunChangesNothing ==
    (prev.ok /\ RealRun /\ last.model = prev.model)
        => (~last.err /\ out = before)

\* no file entry's expansion is joined to the path of a directory entry's
\* expansion, with or without its trailing .tmpl
NoDirFileClash(model) ==
    \A pf \in Pairs(model), pd \in Pairs(model) :
        (~pf.isDir /\ pd.isDir) => pd.o \notin {pf.o, TrimTmpl(pf.o)}

\* C4, amended: provided no expanded file entry shares its path with an
\* expanded directory entry, a second run with the same template and model
\* on the store a successful run left succeeds and leaves the store as it
\* found it.
C4_SecondRunChangesNothingNoClash ==
    (prev.ok /\ RealRun /\ last.model = prev.model /\ NoDirFileClash(last.model))
        => (~last.err /\ out = before)

\* a second run that wrote a file again and removed a directory again
C4_Witness ==
    /\ prev.ok /\ RealRun /\ last.model = prev.model
    /\ NoDirFileClash(last.model)
    /\ Logged("WriteFile") # {} /\ Logged("Remove") # {}
    /\ before # StoreEmpty

\* the expanded file entries, and what the body of each renders to
FilePairs(model) == {pr \in Pairs(model) : ~pr.isDir}

Rendered(pr, model) == renderContent(tmpl[pr.t].data, model, pr.ctx).s

NonEmptyPairs(model) == {pr \in FilePairs(model) : Rendered(pr, model) # <<>>}

FilesOf(fs) == {p \in DOMAIN fs : ~fs[p].isDir}

DirsOf(fs) == {p \in DOMAIN fs : fs[p].isDir}

\* the output store holds one file for each expanded file entry that renders
\* to something, at the entry's path without a trailing .tmpl, with the
\* rendered text; and its directories are the root and the ancestors of
\* those files
ExactOutput(model) ==
    LET ne == NonEmptyPairs(model)
    IN  /\ FilesOf(out) = {TrimTmpl(pr.o) : pr \in ne}
        /\ \A pr \in ne : out[TrimTmpl(pr.o)] = File(Rendered(pr, model))
        /\ DirsOf(out) = UNION {Prefixes(Front(p)) : p \in FilesOf(out)}
                            \cup {<<>>}

NoFileClash(model) ==
    \A p1 \in FilePairs(model), p2 \in FilePairs(model) :
        p1 # p2 => {p1.o, TrimTmpl(p1.o)} \cap {p2.o, TrimTmpl(p2.o)} = {}

-----------------------------------------------------------------------------
(* Properties of expansion *)

\* the segment holds one placeholder; the dotted path inside it
OnePlaceholder(name) == Len(FindAllStringSubmatch(name)) = 1

PathOf(name) == KeyPath(FindAllStringSubmatch(name)[1][2])

\* the placeholder names a sequence of the context
NamesSequence(name, ctx) ==
    /\ OnePlaceholder(name)
    /\ LET f == Field(ctx, PathOf(name)) IN ~f.err /\ f.v.t = "list"

\* the placeholder names a field of the elements of a sequence of the
\* context, all of them maps that have the field
BroadcastsOver(name, ctx) ==
    /\ OnePlaceholder(name)
    /\ LET f == Field(ctx, Front(PathOf(name)))
       IN  /\ ~f.err /\ f.v.t = "list"
           /\ \A i \in 1..Len(f.v.el) :
                 f.v.el[i].t = "map" /\ HasKey(f.v.el[i], Base(PathOf(name)))

ResolvesToSequence(name, ctx) ==
    NamesSequence(name, ctx) \/ BroadcastsOver(name, ctx)

SequenceOf(name, ctx) ==
    IF NamesSequence(name, ctx) THEN Field(ctx, PathOf(name)).v
    ELSE Field(ctx, Front(PathOf(name))).v

\* C6: when the single placeholder of a segment resolves to a sequence of
\* length N, whether it names the sequence itself or a field broadcast over
\* its elements, the expansion has N segments and the i-th carries the i-th
\* element of the sequence as its context.
C6_OneSegmentPerElement ==
    (eres # NoResult /\ ResolvesToSequence(seg, ectx))
        => /\ Len(eres) = Len(SequenceOf(seg, ectx).el)
           /\ \A i \in 1..Len(eres) : eres[i].ctx = SequenceOf(seg, ectx).el[i]

-----------------------------------------------------------------------------
(* Properties of a run, continued *)

\* the contexts in which the walk expands the name of a template entry
ContextsOf(q, model) ==
    IF Len(q) = 1 THEN {model}
    ELSE {pr.ctx : pr \in {x \in Pairs(model) : x.isDir /\ x.t = Front(q)}}

\* the entry's placeholder resolves to an empty sequence wherever the walk
\* expands it
PrunedEntry(q, model) ==
    \A ctx \in ContextsOf(q, model) :
        /\ ResolvesToSequence(Base(q), ctx)
        /\ SequenceOf(Base(q), ctx).el = <<>>

\* C7: when the placeholder of a template entry's name resolves to an empty
\* sequence, the run does nothing for the entry or below it (no listing,
\* reading, rendering, creation), and the entry's siblings that expand to
\* something are processed.
C7_EmptySequencePruned ==
    (last.ran /\ ~last.err) =>
        \A q \in DOMAIN tmpl \ {<<>>} :
            PrunedEntry(q, last.model) =>
                /\ \A i \in 1..Len(last.log) : ~IsPrefix(q, last.log[i].t)
                /\ \A q2 \in Children(tmpl, Front(q)) \ {q} :
                      (\E ctx \in ContextsOf(q2, last.model) :
                          expandPath(Base(q2), ctx) # <<>>)
                          => \E i \in 1..Len(last.log) : last.log[i].t = q2

\* C8: a file whose rendered content is empty or all white space is never
\* written: every file the run created or changed holds something other than
\* white space.
C8_BlankNeverWritten ==
    RealRun =>
        \A p \in FilesOf(out) :
            (p \notin DOMAIN before \/ before[p] # out[p])
                => TrimSpace(out[p].data) # <<>>

\* C9: when an earlier successful run wrote a file for a template entry and
\* the current successful run renders that entry, at that output path, to
\* empty content and writes nothing there, the file is gone after the
\* current run: the path checked for deletion is the path that was written.
C9_StaleFileRemoved ==
    (prev.ok /\ Succeeded(last)) =>
        \A w \in prev.written :
            (/\ \E i \in Logged("render") :
                    /\ last.log[i].t = w[1]
                    /\ TrimTmpl(last.log[i].path) = w[2]
                    /\ last.log[i].ok /\ last.log[i].data = <<>>
             /\ \A i \in Logged("WriteFile") : last.log[i].path # w[2])
                => w[2] \notin DOMAIN out

\* C10: the first failure of a listing, a read, a rendering, a write or a
\* removal ends the run with an error: the failed operation is the last one
\* of the run, and the files written before it are still in place.
C10_FailFast ==
    last.ran =>
        /\ \A i \in 1..Len(last.log) :
              (~last.log[i].ok /\ last.log[i].op # "Exists")
                  => (last.err /\ i = Len(last.log))
        /\ last.err =>
              \A i \in Logged("WriteFile") :
                  (/\ last.log[i].ok
                   /\ \A j \in (i + 1)..Len(last.log) :
                         last.log[j].path # last.log[i].path)
                      => /\ last.log[i].path \in DOMAIN out
                         /\ out[last.log[i].path] = File(last.log[i].data)

\* a run that wrote a file and then stopped at a store call that failed
C10_Witness ==
    /\ last.ran /\ last.err /\ last.fault > 0
    /\ ~last.log[Len(last.log)].ok
    /\ \E i \in Logged("WriteFile") : last.log[i].ok
    /\ out # before

\* the expanded directory entries
DirPairs(model) == {pr \in Pairs(model) : pr.isDir}

\* C11: after a successful run that is not a dry run, no directory the run
\* made for an expanded template directory entry is left empty: it has a
\* child or it is not there.
C11_NoEmptyDirLeft ==
    Succeeded(last) =>
        \A pr \in DirPairs(last.model) :
            IsDirAt(out, pr.o) => Children(out, pr.o) # {}

\* a run that made two directories, removed the one whose files all rendered
\* empty and kept the other
C11_Witness ==
    /\ Succeeded(last)
    /\ \E i \in Logged("Remove") : last.log[i].path \notin DOMAIN before
    /\ \E pr \in DirPairs(last.model) : pr.o \notin DOMAIN out
    /\ \E pr \in DirPairs(last.model) :
          pr.o \notin DOMAIN before /\ IsDirAt(out, pr.o)

-----------------------------------------------------------------------------
(* Properties of expansion, continued *)

TwoPlaceholders(name) == Len(FindAllStringSubmatch(name)) = 2

\* the text and the dotted path of the k-th placeholder of a name
TextAt(name, k) == FindAllStringSubmatch(name)[k][1]

PathAt(name, k) == KeyPath(FindAllStringSubmatch(name)[k][2])

\* the values a dotted path resolves to from a context
ValuesFrom(ctx, path) == resolveKeyPathWithContext(ctx, ctx, path)

\* a name with a placeholder replaced by a value, when the value is a scalar
Subst(name, placeholder, v) ==
    IF isScalar(v) THEN ReplaceAll(name, placeholder, Sprint(v)) ELSE name

SecondGives(n) ==
    LET V1 == ValuesFrom(ectx, PathAt(seg, 1))
    IN  \A i \in 1..Len(V1) : Len(ValuesFrom(V1[i].ctx, PathAt(seg, 2))) = n

ScalarAt(ctx, path) ==
    LET f == Field(ctx, path) IN ~f.err /\ isScalar(f.v)

\* C13: a segment with two placeholders that each resolve to a scalar from
\* the segment's context, through a top-level key or through a nested map,
\* in either order, expands to exactly one segment, named by the template
\* text with each placeholder replaced by its own value.
C13_TwoScalars ==
    (/\ eres # NoResult /\ TwoPlaceholders(seg) /\ ectx.t = "map"
     /\ ScalarAt(ectx, PathAt(seg, 1)) /\ ScalarAt(ectx, PathAt(seg, 2)))
        => /\ Len(eres) = 1
           /\ eres[1].value =
                 Subst(Subst(seg, TextAt(seg, 1),
                             Field(ectx, PathAt(seg, 1)).v),
                       TextAt(seg, 2), Field(ectx, PathAt(seg, 2)).v)

\* the dotted path leads through map keys only, to some value
PlainPath(ctx, path) == ~Field(ctx, path).err

\* the elements of a sequence that the path crosses after k components
\* reached through map keys, when more components follow
CrossedAt(ctx, path, k) ==
    LET f == Field(ctx, SubSeq(path, 1, k))
    IN  IF k < Len(path) /\ ~f.err /\ f.v.t = "list"
        THEN {f.v.el[i] : i \in 1..Len(f.v.el)}
        ELSE {}

\* C14: descending into a map key does not change the context.  When the
\* path of a segment's placeholder crosses no sequence, every segment of the
\* expansion carries the context the segment was expanded with; when it
\* crosses a sequence and then map keys, every segment carries an element of
\* that sequence, not an inner map.
C14_MapDescentKeepsContext ==
    (eres # NoResult /\ OnePlaceholder(seg) /\ ectx.t = "map") =>
        /\ PlainPath(ectx, PathOf(seg))
              => \A i \in 1..Len(eres) : eres[i].ctx = ectx
        /\ \A k \in 1..Len(PathOf(seg)) :
              CrossedAt(ectx, PathOf(seg), k) # {}
                  => \A i \in 1..Len(eres) :
                        eres[i].ctx \in CrossedAt(ectx, PathOf(seg), k)

-----------------------------------------------------------------------------
(* Properties of the earlier segment expander *)

OneExpr(segment) == Len(ExprsFrom(segment, 1)) = 1

\* the path of the segment's single expression, split at the dots
PartsOf(segment) ==
    LET p == ExprsFrom(segment, 1)[1]
    IN  Split(TrimSpace(SubSeq(segment, p[1] + 2, p[2] - 2)), ".")

\* the path reaches an empty sequence: some prefix of it is a chain of keys
\* of the context that ends at an empty sequence
ReachesEmptySequence(segment, ctx) ==
    /\ OneExpr(segment)
    /\ \E k \in 1..Len(PartsOf(segment)) :
          LET f == Field(ctx, SubSeq(PartsOf(segment), 1, k))
          IN  ~f.err /\ f.v.t = "list" /\ f.v.el = <<>>

\* the path matches no key at all: its first component is a word that is
\* not a key of the context
MatchesNothing(segment, ctx) ==
    /\ OneExpr(segment)
    /\ ctx.t = "map"
    /\ PartsOf(segment)[1] # <<>>
    /\ ~HasKey(ctx, PartsOf(segment)[1])

\* what handing the segment's expression to evalExpression gives
FallbackOf(segment, rootModel, ctx) ==
    LET p == ExprsFrom(segment, 1)[1]
        expr == TrimSpace(SubSeq(segment, p[1] + 2, p[2] - 2))
        val == evalExpression(expr, rootModel, ctx)
        str == toString(val.v)
    IN  IF val.err \/ str.err THEN [err |-> TRUE, segs |-> <<>>]
        ELSE [err |-> FALSE,
              segs |-> <<[Rendered |-> SubSeq(segment, 1, p[1] - 1) \o str.s
                                        \o SubSeq(segment, p[2] + 1, Len(segment)),
                          Ctx |-> ctx]>>]

\* C15: a placeholder whose path reaches an empty sequence yields zero
\* segments and no error; a placeholder whose path matches no key at all
\* yields what fallback template evaluation yields (its error included)
\* and is not silently pruned.
C15_MissingFieldFallsBack ==
    \A k \in 1..Len(eres) :
        /\ ReachesEmptySequence(seg, ectx)
              => (~eres[k].err /\ eres[k].segs = <<>>)
        /\ MatchesNothing(seg, ectx)
              => eres[k] = FallbackOf(seg, root, ectx)

\* the placeholder names a field that is absent from the context: its path
\* descends through keys of nested maps up to a map that lacks the next
\* component
AbsentField(segment, ctx) ==
    /\ OneExpr(segment)
    /\ ctx.t = "map"
    /\ \E k \in 1..Len(PartsOf(segment)) :
          LET m == Field(ctx, SubSeq(PartsOf(segment), 1, k - 1))
          IN  /\ ~m.err /\ m.v.t = "map"
              /\ PartsOf(segment)[k] # <<>>
              /\ ~HasKey(m.v, PartsOf(segment)[k])

-----------------------------------------------------------------------------
(* Properties of a run: the dry run against the run proper *)

\* the paths of the operations op of a log, in the order of the log
PathsOf(log, op) ==
    LET sel == SelectSeq(log, LAMBDA e : e.op = op)
    IN  [k \in 1..Len(sel) |-> sel[k].path]

\* the run proper on the inputs of the last run: the same template tree and
\* model, on the store the last run found
RunProper ==
    ProcessDir([Model |-> last.model, DryRun |-> FALSE, TemplateFS |-> tmpl,
                fault |-> 0],
               <<>>, <<>>, last.model,
               [fs |-> before, err |-> FALSE, log |-> <<>>, n |-> 0])

\* C17: when the run proper succeeds on a template tree, model and output
\* store, the dry run on the same inputs succeeds and reports as many
\* directory creations, file writes and skips of empty files as the run
\* proper performs, at the same output paths in the same order.
C17_DryRunReportsSame ==
    (last.ran /\ last.dry /\ ~RunProper.err) =>
        /\ ~last.err
        /\ PathsOf(last.log, "[DIR]") = PathsOf(RunProper.log, "MkdirAll")
        /\ PathsOf(last.log, "[FILE]") = PathsOf(RunProper.log, "WriteFile")
        /\ PathsOf(last.log, "[SKIP]") = PathsOf(RunProper.log, "Exists")

\* a dry run that reported a directory, a file and a skip, on inputs on
\* which the run proper succeeds
C17_Witness ==
    /\ last.ran /\ last.dry /\ ~RunProper.err
    /\ PathsOf(last.log, "[DIR]") # <<>>
    /\ PathsOf(last.log, "[FILE]") # <<>>
    /\ PathsOf(last.log, "[SKIP]") # <<>>

-----------------------------------------------------------------------------
(* Properties of a run: the order of its operations *)

\* the operations that begin the processing of one expansion of an entry:
\* the creation of a directory, the rendering of a file
Begins(e) == e.op \in {"MkdirAll", "[DIR]", "render"}

\* log[i] and log[j] begin entries of the template directory d in one and
\* the same listing of d
SameListing(log, i, j, d) ==
    /\ i <= j
    /\ Begins(log[i]) /\ Begins(log[j])
    /\ log[i].t # <<>> /\ Front(log[i].t) = d
    /\ log[j].t # <<>> /\ Front(log[j].t) = d
    /\ \A k \in i..j : ~(log[k].op = "ReadDirTemplate" /\ log[k].t = d)

\* sibling entries are begun in ascending order of their template names
SiblingsAscend ==
    \A i, j \in 1..Len(last.log) :
        \A d \in DOMAIN tmpl :
            SameListing(last.log, i, j, d)
                => ~StrLess(Base(last.log[j].t), Base(last.log[i].t))

\* the output names that one listing, begun at log[r], gives to the entry q
NamesGiven(log, r, q) ==
    LET sel == SelectSeq([k \in 1..Len(log) |-> [e |-> log[k], at |-> k]],
                         LAMBDA x : /\ x.at > r /\ x.e.t = q /\ Begins(x.e)
                                    /\ \A k \in (r + 1)..x.at :
                                          ~(log[k].op = "ReadDirTemplate"
                                              /\ log[k].t = Front(q)))
    IN  [k \in 1..Len(sel) |-> Base(sel[k].e.path)]

\* what the elements of the sequence give to the name, in their order
NamesInOrder(name, ctx) ==
    LET els == SequenceOf(name, ctx).el
    IN  [k \in 1..Len(els) |->
            ReplaceAll(name, FindAllStringSubmatch(name)[1][1],
                       Sprint(Get(els[k], Base(PathOf(name)))))]

\* an entry listed with the model as context, whose placeholder is broadcast
\* over a sequence of the model with a scalar in every element
Broadcast(q) ==
    /\ q # <<>>
    /\ ContextsOf(q, last.model) = {last.model}
    /\ BroadcastsOver(Base(q), last.model)
    /\ \A k \in 1..Len(SequenceOf(Base(q), last.model).el) :
          isScalar(Get(SequenceOf(Base(q), last.model).el[k],
                       Base(PathOf(Base(q)))))

\* the expansions of such an entry are begun in the order of the sequence
ExpansionsInSequenceOrder ==
    \A q \in DOMAIN tmpl :
        Broadcast(q) =>
            \A r \in 1..Len(last.log) :
                (last.log[r].op = "ReadDirTemplate" /\ last.log[r].t = Front(q))
                    => NamesGiven(last.log, r, q) = NamesInOrder(Base(q), last.model)

\* two consecutive runs on equal inputs: the same model and mode, on equal
\* stores
EqualInputs ==
    /\ last.ran /\ last'.ran
    /\ last'.model = last.model /\ last'.dry = last.dry
    /\ before' = before

\* C18: sibling template entries are processed in ascending order of their
\* template names and the expansions of an entry in the order of the model's
\* sequence; two runs on equal inputs produce equal sequences of operations
\* and equal final output stores.
C18_OrderIsDetermined ==
    /\ []((last.ran /\ ~last.err) => (SiblingsAscend /\ ExpansionsInSequenceOrder))
    /\ [][EqualInputs => (last'.log = last.log /\ out' = out)]_vars

\* a run that began two siblings of different names and two expansions of
\* one entry, on the store the run before it left unchanged
C18_Witness ==
    /\ last.ran /\ ~last.err /\ prev.ok /\ out = before
    /\ \E i, j \in 1..Len(last.log) :
          /\ i < j
          /\ SameListing(last.log, i, j, Front(last.log[i].t))
          /\ last.log[i].t # last.log[j].t
    /\ \E q \in DOMAIN tmpl :
          /\ Broadcast(q)
          /\ \E r \in 1..Len(last.log) : Len(NamesGiven(last.log, r, q)) > 1

-----------------------------------------------------------------------------
(* Properties of a run: the context of a rendering *)

\* the renderings of the last run
Renderings == {i \in 1..Len(last.log) : last.log[i].op = "render"}

\* e renders a file under its own name's expansion: some expansion of the
\* name, in a context in which the walk lists the file's directory, gives
\* the output name and the context of e
OwnExpansion(e) ==
    \E c \in ContextsOf(e.t, last.model) :
        \E k \in 1..Len(expandPath(Base(e.t), c)) :
            /\ expandPath(Base(e.t), c)[k].value = Base(e.path)
            /\ expandPath(Base(e.t), c)[k].ctx = e.ctx

\* the file of e lies in a directory that the walk lists with the model as
\* context and whose single placeholder starts at a sequence of the model;
\* the file's own placeholders, if any, are single keys
UnderSequence(e) ==
    /\ Len(e.t) >= 2
    /\ ContextsOf(Front(e.t), last.model) = {last.model}
    /\ OnePlaceholder(Base(Front(e.t)))
    /\ LET f == Field(last.model, <<PathOf(Base(Front(e.t)))[1]>>)
       IN  ~f.err /\ f.v.t = "list"
    /\ \A k \in 1..Len(FindAllStringSubmatch(Base(e.t))) :
          Len(PathAt(Base(e.t), k)) = 1

\* the elements of that sequence
ElementsOver(e) ==
    LET f == Field(last.model, <<PathOf(Base(Front(e.t)))[1]>>).v
    IN  {f.el[k] : k \in 1..Len(f.el)}

\* C19: every rendering is given, as its dot, the context of the file
\* name's own expansion, which is the selected element of the sequence when
\* the file lies under a directory expanded over a sequence; and what it
\* renders is rendered with the top-level model behind the root accessor.
C19_RenderContext ==
    \A i \in Renderings :
        LET e == last.log[i]
        IN  /\ OwnExpansion(e)
            /\ UnderSequence(e) => e.ctx \in ElementsOver(e)
            /\ e.ok => e.data = renderContent(tmpl[e.t].data, last.model, e.ctx).s

-----------------------------------------------------------------------------
(* Properties of removeEmptyCreatedDirs *)

\* the examinations of the call, in order: the positions of its ReadDir
Examined == SelectSeq([k \in 1..Len(last.log) |-> k],
                      LAMBDA k : last.log[k].op = "ReadDir")

\* the store as it was when the call reached position k of its log
StoreAt(k) ==
    LET gone == {last.log[j].path :
                    j \in {x \in 1..(k - 1) :
                              last.log[x].op = "Remove" /\ last.log[x].ok}}
    IN  [p \in DOMAIN before \ gone |-> before[p]]

\* the directories the call removed
Removed == DOMAIN before \ DOMAIN out

EmptyDirAt(fs, d) == IsDirAt(fs, d) /\ Children(fs, d) = {}

\* C20: removeEmptyCreatedDirs examines every tracked directory once, a
\* tracked descendant before its tracked ancestor; it removes exactly the
\* tracked directories that are empty when examined and changes nothing
\* else, so it never removes an untracked directory or one that still has a
\* child; afterwards no tracked directory exists empty.
C20_RemovesTrackedEmpty ==
    last.ran =>
        /\ {last.log[Examined[i]].path : i \in 1..Len(Examined)} = created
        /\ Len(Examined) = Cardinality(created)
        /\ \A i, j \in 1..Len(Examined) :
              LET a == last.log[Examined[i]].path
                  b == last.log[Examined[j]].path
              IN  (i < j) => ~(IsPrefix(a, b) /\ a # b)
        /\ Removed = {last.log[Examined[i]].path :
                         i \in {x \in 1..Len(Examined) :
                                   EmptyDirAt(StoreAt(Examined[x]),
                                              last.log[Examined[x]].path)}}
        /\ Removed \subseteq created
        /\ out = [p \in DOMAIN before \ Removed |-> before[p]]
        /\ \A d \in created : ~EmptyDirAt(out, d)

\* the call removed a tracked directory that its tracked child's removal
\* had emptied, and left an untracked empty directory and a tracked one
\* that holds a file
C20_Witness ==
    /\ last.ran
    /\ \E d \in Removed : Children(before, d) # {}
    /\ \E d \in DOMAIN out \ created : d # <<>> /\ EmptyDirAt(out, d)
    /\ \E d \in created : IsDirAt(out, d) /\ Children(out, d) # {}

-----------------------------------------------------------------------------
(* Properties of the expansion, continued *)

\* the single placeholder's path is a key of the context that holds a
\* sequence, then an index within the sequence, then keys of nested maps
\* that end at a scalar of the element
IndexedPath(name, ctx) ==
    /\ OnePlaceholder(name)
    /\ ctx.t = "map"
    /\ Len(PathOf(name)) >= 2
    /\ LET f == Field(ctx, <<PathOf(name)[1]>>)
           ix == Atoi(PathOf(name)[2])
       IN  /\ ~f.err /\ f.v.t = "list"
           /\ ix.ok /\ ix.n >= 0 /\ ix.n < Len(f.v.el)
           /\ LET r == Field(f.v.el[ix.n + 1],
                             SubSeq(PathOf(name), 3, Len(PathOf(name))))
              IN  ~r.err /\ isScalar(r.v)

\* the element the index selects
IndexedElement(name, ctx) ==
    Field(ctx, <<PathOf(name)[1]>>).v.el[Atoi(PathOf(name)[2]).n + 1]

\* C21: when a path component is a non-negative integer within the bounds
\* of the sequence reached, expansion selects exactly that element,
\* resolves the remaining components on it, and gives one segment whose
\* context is that element.
C21_IndexSelectsElement ==
    (eres # NoResult /\ IndexedPath(seg, ectx)) =>
        /\ Len(eres) = 1
        /\ eres[1].ctx = IndexedElement(seg, ectx)
        /\ eres[1].value =
              ReplaceAll(seg, FindAllStringSubmatch(seg)[1][1],
                         Sprint(Field(IndexedElement(seg, ectx),
                                      SubSeq(PathOf(seg), 3, Len(PathOf(seg)))).v))

-----------------------------------------------------------------------------
(* Properties of normalize *)

\* the string form of the i-th key of a map of either kind
KeyAt(v, i) == IF v.t = "anymap" THEN KeyString(v.kv[i][1]) ELSE v.kv[i][1]

\* r is v with every map string-keyed by the string forms of its keys, every
\* sequence of the same length and order, and every scalar leaf the same
RECURSIVE Canonical(_, _)
Canonical(v, r) ==
    CASE v.t \in {"anymap", "map"} ->
            /\ r.t = "map"
            /\ {r.kv[i][1] : i \in 1..Len(r.kv)}
                  = {KeyAt(v, i) : i \in 1..Len(v.kv)}
            /\ \A i, j \in 1..Len(r.kv) : r.kv[i][1] = r.kv[j][1] => i = j
            /\ \A i \in 1..Len(v.kv) :
                  /\ HasKey(r, KeyAt(v, i))
                  /\ Canonical(v.kv[i][2], Get(r, KeyAt(v, i)))
      [] v.t = "list" ->
            /\ r.t = "list"
            /\ Len(r.el) = Len(v.el)
            /\ \A i \in 1..Len(v.el) : Canonical(v.el[i], r.el[i])
      [] OTHER -> r = v

\* no map at any depth of v has two keys of one string form
RECURSIVE DistinctKeyStrings(_)
DistinctKeyStrings(v) ==
    /\ \A i, j \in 1..Len(v.kv) : KeyAt(v, i) = KeyAt(v, j) => i = j
    /\ \A i \in 1..Len(v.kv) : DistinctKeyStrings(v.kv[i][2])
    /\ \A i \in 1..Len(v.el) : DistinctKeyStrings(v.el[i])

\* C22: normalize returns the value with every map at every depth keyed by
\* the string forms of its keys, every sequence of the same length and
\* order and every scalar leaf unchanged; normalize of its result is the
\* result.
C22_NormalizeCanonical ==
    \A k \in 1..Len(eres) :
        /\ Canonical(root, eres[k])
        /\ \A w \in BOOLEAN : normalize(eres[k], w) = eres[k]

\* C22 amended: the same, for a value in which no map has two keys of one
\* string form.
C22_NormalizeCanonicalDistinct ==
    \A k \in 1..Len(eres) :
        DistinctKeyStrings(root) =>
            /\ Canonical(root, eres[k])
            /\ \A w \in BOOLEAN : normalize(eres[k], w) = eres[k]

\* a map with an integer key, holding a sequence with a map under it, has
\* been normalized
C22_Witness ==
    /\ eres # <<>>
    /\ DistinctKeyStrings(root)
    /\ root.t = "anymap"
    /\ \E i \in 1..Len(root.kv) :
          /\ root.kv[i][1].t = "int"
          /\ root.kv[i][2].t = "list"
          /\ eres[1].kv[i][2].el[1].t = "map"

\* the first placeholder names a field of the elements of a sequence of the
\* context and the second a single key; every element is a map that holds a
\* scalar under both
FieldThenRelative(name, ctx) ==
    /\ TwoPlaceholders(name)
    /\ ctx.t = "map"
    /\ Len(PathAt(name, 1)) = 2
    /\ Len(PathAt(name, 2)) = 1
    /\ TextAt(name, 1) # TextAt(name, 2)
    /\ LET f == Field(ctx, <<PathAt(name, 1)[1]>>)
       IN  /\ ~f.err /\ f.v.t = "list"
           /\ \A i \in 1..Len(f.v.el) :
                 /\ ScalarAt(f.v.el[i], <<PathAt(name, 1)[2]>>)
                 /\ ScalarAt(f.v.el[i], PathAt(name, 2))

\* C23: a later placeholder is resolved against the context the earlier
\* placeholder's selection produced: a segment such as
\* "{{ f.n }}-{{ t }}" expands to one segment per element of f, in order,
\* named from that element's n and the same element's t, with the element
\* as context.
C23_LaterRelativeToSelection ==
    (eres # NoResult /\ FieldThenRelative(seg, ectx)) =>
        LET els == Field(ectx, <<PathAt(seg, 1)[1]>>).v.el
        IN  /\ Len(eres) = Len(els)
            /\ \A i \in 1..Len(els) :
                  /\ eres[i].ctx = els[i]
                  /\ eres[i].value =
                        Subst(Subst(seg, TextAt(seg, 1),
                                    Get(els[i], PathAt(seg, 1)[2])),
                              TextAt(seg, 2), Get(els[i], PathAt(seg, 2)[1]))

\* such a segment has been expanded over two elements whose second values
\* differ
C23_Witness ==
    /\ eres # NoResult
    /\ FieldThenRelative(seg, ectx)
    /\ Len(eres) = 2
    /\ eres[1].value # eres[2].value
    /\ Get(eres[1].ctx, PathAt(seg, 2)[1]) # Get(eres[2].ctx, PathAt(seg, 2)[1])

\* the single placeholder's path leads through map keys to a map
ResolvesToMap(name, ctx) ==
    /\ OnePlaceholder(name)
    /\ ctx.t = "map"
    /\ LET f == Field(ctx, PathOf(name)) IN ~f.err /\ f.v.t = "map"

\* C24: when the placeholder resolves to a single map, the expansion is
\* exactly one segment, whose context is that map and whose text is the
\* segment's, unaltered.
C24_MapBecomesContext ==
    (eres # NoResult /\ ResolvesToMap(seg, ectx)) =>
        /\ Len(eres) = 1
        /\ eres[1].ctx = Field(ectx, PathOf(seg)).v
        /\ eres[1].value = seg

\* the single placeholder is a key of the context that holds a sequence,
\* then one component that is no number
BroadcastPath(name, ctx) ==
    /\ OnePlaceholder(name)
    /\ ctx.t = "map"
    /\ Len(PathOf(name)) = 2
    /\ ~Atoi(PathOf(name)[2]).ok
    /\ LET f == Field(ctx, <<PathOf(name)[1]>>) IN ~f.err /\ f.v.t = "list"

\* the elements of the sequence that are maps holding the component, in the
\* order of the sequence
Matching(name, ctx) ==
    SelectSeq(Field(ctx, <<PathOf(name)[1]>>).v.el,
              LAMBDA el : el.t = "map" /\ HasKey(el, PathOf(name)[2]))

\* C25: broadcasting a component over a sequence gives exactly one branch
\* per element that is a map holding that key, in the order of the
\* sequence, each with its element as context; the other elements are
\* skipped.
C25_BroadcastOverMaps ==
    (eres # NoResult /\ BroadcastPath(seg, ectx)) =>
        LET els == Matching(seg, ectx)
        IN  /\ Len(eres) = Len(els)
            /\ \A i \in 1..Len(els) :
                  /\ eres[i].ctx = els[i]
                  /\ eres[i].value =
                        Subst(seg, FindAllStringSubmatch(seg)[1][1],
                              Get(els[i], PathOf(seg)[2]))

-----------------------------------------------------------------------------
(* Properties of a run: failures of the output store *)

\* the operations on the output store
OutputStoreOps == {"MkdirAll", "ReadDir", "Exists", "WriteFile", "Remove"}

\* C26: in a non-dry run, every failure of an operation on the output store
\* (creating or listing a directory, checking that a file exists, writing
\* or removing a file, removing a directory) ends the run with an error:
\* the failed operation is the last of the run.
C26_StoreFailureEndsRun ==
    (last.ran /\ ~last.dry) =>
        \A i \in 1..Len(last.log) :
            (~last.log[i].ok /\ last.log[i].op \in OutputStoreOps)
                => (last.err /\ i = Len(last.log))

-----------------------------------------------------------------------------
(* Properties of a run: the steps of a directory entry *)

\* the output store after the first k operations of the last run, replayed
\* from the store the run found
RECURSIVE Replay(_)
Replay(k) ==
    IF k = 0 THEN before
    ELSE LET e == last.log[k]
             fs == Replay(k - 1)
         IN  IF ~e.ok THEN fs
             ELSE CASE e.op = "MkdirAll" ->
                         [q \in DOMAIN fs \cup Prefixes(e.path) |->
                             IF q \in DOMAIN fs THEN fs[q] ELSE Dir]
                    [] e.op = "WriteFile" -> Put(fs, e.path, File(e.data))
                    [] e.op = "Remove" -> Del(fs, e.path)
                    [] OTHER -> fs

\* the emptiness check that closes the directory made at position i: the
\* first listing of its output path after i, or 0
CloseOf(i) ==
    LET js == {j \in (i + 1)..Len(last.log) :
                  /\ last.log[j].op = "ReadDir"
                  /\ last.log[j].path = last.log[i].path
                  /\ last.log[j].t = last.log[i].t}
    IN  IF js = {} THEN 0 ELSE CHOOSE j \in js : \A x \in js : j <= x

\* the template directory whose listing the operation belongs to
OwnerOf(e) == IF e.op = "ReadDirTemplate" THEN e.t ELSE Front(e.t)

\* position k lies between the creation of a directory for the template
\* directory d and that directory's emptiness check
Within(k, d) ==
    \E i \in 1..(k - 1) :
        /\ last.log[i].op = "MkdirAll" /\ last.log[i].t = d
        /\ CloseOf(i) >= k

\* C27: for each directory a non-dry run makes, the directory is created,
\* then its descendants and nothing else are processed, then it is listed
\* and removed if and only if it is empty; every operation on an entry of a
\* template directory falls between the creation and the emptiness check of
\* a directory made for it.  So a directory whose subdirectories were all
\* removed as empty, and which got no file, is removed in the same run.
C27_DirectorySteps ==
    Succeeded(last) =>
        /\ \A i \in Logged("MkdirAll") :
              LET j == CloseOf(i)
                  p == last.log[i].path
              IN  /\ j # 0
                  /\ \A k \in (i + 1)..(j - 1) :
                        /\ IsPrefix(last.log[i].t, last.log[k].t)
                        /\ last.log[k].path # <<>>
                              => (IsPrefix(p, last.log[k].path)
                                    /\ last.log[k].path # p)
                  /\ (Children(Replay(j), p) = {})
                        <=> (/\ j < Len(last.log)
                             /\ last.log[j + 1].op = "Remove"
                             /\ last.log[j + 1].path = p)
        /\ \A k \in 1..Len(last.log) :
              (last.log[k].t # <<>> /\ OwnerOf(last.log[k]) # <<>>)
                  => Within(k, OwnerOf(last.log[k]))
        /\ Replay(Len(last.log)) = out

\* a run that made a directory in a directory, removed the inner one as
\* empty and then the outer one, which had got nothing else
C27_Witness ==
    /\ Succeeded(last)
    /\ \E i, j \in Logged("Remove") :
          /\ i < j
          /\ last.log[j].path # <<>>
          /\ Front(last.log[i].path) = last.log[j].path
          /\ \E a, b \in Logged("MkdirAll") :
                /\ last.log[a].path = last.log[j].path
                /\ last.log[b].path = last.log[i].path
                /\ a < b

-----------------------------------------------------------------------------
(* Properties of a run: the context of a directory level *)

\* the listings of template directories in the last run
Listings == Logged("ReadDirTemplate")

\* the listing in whose loop the entry begun at position b is processed:
\* the latest listing of the entry's template directory before b
EnclosingListing(b) ==
    LET rs == {r \in Listings : r < b /\ last.log[r].t = Front(last.log[b].t)}
    IN  CHOOSE r \in rs : \A x \in rs : x <= r

\* the position b begins the k-th expansion of its entry in that listing
OrdinalOf(b) ==
    Cardinality({x \in (EnclosingListing(b) + 1)..b :
                    Begins(last.log[x]) /\ last.log[x].t = last.log[b].t})

\* the context a listing was entered with, read off the log: the model for
\* the template's root, and for a subdirectory the context of the expansion
\* that the operation before the listing began, taken from the expansions
\* of the directory's name in the context its parent was entered with
RECURSIVE LevelCtx(_)
ItemAt(b) ==
    LET xs == expandPath(Base(last.log[b].t), LevelCtx(EnclosingListing(b)))
        k == OrdinalOf(b)
    IN  IF k \in 1..Len(xs) THEN [found |-> TRUE, item |-> xs[k]]
        ELSE [found |-> FALSE, item |-> [value |-> <<>>, ctx |-> Nil]]

LevelCtx(r) ==
    IF last.log[r].t = <<>> THEN last.model ELSE ItemAt(r - 1).item.ctx

\* the output directory a listing writes into
LevelOut(r) == IF last.log[r].t = <<>> THEN <<>> ELSE last.log[r - 1].path

\* the expansions of the entry q that the listing at position r began
BegunIn(r, q) ==
    {b \in 1..Len(last.log) :
        /\ Begins(last.log[b]) /\ last.log[b].t = q
        /\ EnclosingListing(b) = r}

\* C28: a run never modifies the model, and every entry of a directory level
\* is expanded with the context the level was entered with: each expansion
\* begun, at any level and after any number of earlier siblings and
\* recursions, is the next expansion of the entry's name in the context its
\* level was entered with, its output path is in the level's output
\* directory, a file is rendered with that expansion's context as dot and
\* the model of the run behind root, and every subdirectory is listed
\* right after the operation that began it; a run that returns no error
\* has begun, for every entry of every level, as many expansions as the
\* entry's name has in the context the level was entered with.
C28_LevelContextKept ==
    last.ran =>
        /\ \A r \in Listings :
              last.log[r].t # <<>> =>
                  /\ r > 1 /\ Begins(last.log[r - 1])
                  /\ last.log[r - 1].op # "render"
                  /\ last.log[r - 1].t = last.log[r].t
        /\ \A b \in 1..Len(last.log) :
              Begins(last.log[b]) =>
                  LET e == last.log[b]
                      it == ItemAt(b)
                  IN  /\ it.found
                      /\ e.path = Join(LevelOut(EnclosingListing(b)), it.item.value)
                      /\ e.op = "render" =>
                            /\ e.ctx = it.item.ctx
                            /\ e.data = renderContent(tmpl[e.t].data, last.model,
                                                      it.item.ctx).s
        /\ ~last.err =>
              \A r \in Listings :
                  \A q \in DOMAIN tmpl :
                      (q # <<>> /\ Front(q) = last.log[r].t) =>
                          Cardinality(BegunIn(r, q))
                              = Len(expandPath(Base(q), LevelCtx(r)))

\* a run that entered a level with the model, recursed into an entry with
\* an element of a sequence as context, and afterwards began a later sibling
\* whose name resolves in the model and not in that element
C28_Witness ==
    /\ last.ran /\ ~last.err
    /\ \E a, b \in 1..Len(last.log) :
          /\ a < b
          /\ SameListing(last.log, a, b, <<>>)
          /\ last.log[a].t # last.log[b].t
          /\ last.log[a].op \in {"MkdirAll", "[DIR]"}
          /\ ItemAt(a).found /\ ItemAt(a).item.ctx # last.model
          /\ \E r \in Listings : r > a /\ r < b /\ last.log[r].t = last.log[a].t
          /\ FindAllStringSubmatch(Base(last.log[b].t)) # <<>>
          /\ expandPath(Base(last.log[b].t), ItemAt(a).item.ctx) = <<>>
          /\ ItemAt(b).found

-----------------------------------------------------------------------------
(* Properties of a run: every expansion once, depth first *)

\* the (template entry, expansion) pairs of a template directory in depth-
\* first order: the entries in the order of the listing, for each entry its
\* expansions in order, and right after the expansion of a directory the
\* pairs of that directory
RECURSIVE PairsDepthFirst(_, _, _)
PairsDepthFirst(d, outDir, ctx) ==
    LET entries == DirEntries(tmpl, d)
        OfItem(e, item) ==
            <<[t |-> Join(d, e.name), path |-> Join(outDir, item.value)]>>
            \o (IF e.isDir
                THEN PairsDepthFirst(Join(d, e.name), Join(outDir, item.value),
                                     item.ctx)
                ELSE <<>>)
        OfItems[e \in {entries[x] : x \in 1..Len(entries)}, j \in Nat] ==
            LET xs == expandPath(e.name, ctx)
            IN  IF j > Len(xs) THEN <<>>
                ELSE OfItem(e, xs[j]) \o OfItems[e, j + 1]
        OfEntries[i \in Nat] ==
            IF i > Len(entries) THEN <<>>
            ELSE OfItems[entries[i], 1] \o OfEntries[i + 1]
    IN  OfEntries[1]

\* the pairs the last run began, in the order of its log
PairsBegun ==
    LET sel == SelectSeq(last.log, LAMBDA e : Begins(e))
    IN  [k \in 1..Len(sel) |-> [t |-> sel[k].t, path |-> sel[k].path]]

\* C29: a run ends after a number of operations bounded by the number of
\* (template entry, expansion) pairs, and begins each pair exactly once, in
\* depth-first order: the pairs begun are, in order, the depth-first
\* sequence of the pairs of the template tree under the model, all of them
\* when the run returns no error and an initial part of them when it stops
\* at an error; each file begun is read once and written at most once.
\* A pair takes at most four operations (a directory: creation, listing of
\* the template, emptiness check, removal; a file: read, rendering,
\* existence check, removal or write), and the root one listing.
C29_EachPairOnce ==
    last.ran =>
        LET all == PairsDepthFirst(<<>>, <<>>, last.model)
            got == PairsBegun
        IN  /\ Len(got) <= Len(all)
            /\ got = SubSeq(all, 1, Len(got))
            /\ ~last.err => got = all
            /\ Len(last.log) <= 4 * Len(all) + 1
            /\ \A b \in Renderings :
                  /\ b > 1 /\ last.log[b - 1].op = "ReadFile"
                  /\ last.log[b - 1].t = last.log[b].t
                  /\ \A k \in (b + 1)..Len(last.log) :
                        (last.log[k].op \in {"WriteFile", "[FILE]"}
                            /\ \A x \in (b + 1)..k : ~Begins(last.log[x]))
                        => \A y \in (b + 1)..(k - 1) :
                              last.log[y].op \notin {"WriteFile", "[FILE]"}
            /\ Cardinality(Logged("ReadFile"))
                  <= Cardinality(Renderings) + 1
            /\ Cardinality(Logged("WriteFile")) + Cardinality(Logged("[FILE]"))
                  <= Cardinality(Renderings)

\* a run that went through a directory expanded twice, with a file in each
\* expansion, and began a sibling afterwards
C29_Witness ==
    /\ last.ran /\ ~last.err
    /\ \E a, b, c, d \in 1..Len(last.log) :
          /\ a < b /\ b < c /\ c < d
          /\ last.log[a].op \in {"MkdirAll", "[DIR]"}
          /\ last.log[c].op = last.log[a].op
          /\ last.log[c].t = last.log[a].t
          /\ last.log[b].op = "render" /\ Front(last.log[b].t) = last.log[a].t
          /\ last.log[d].op = "render"
          /\ Front(last.log[d].t) = Front(last.log[a].t)
    /\ PairsBegun = PairsDepthFirst(<<>>, <<>>, last.model)
    /\ Len(PairsBegun) >= 5

-----------------------------------------------------------------------------
(* Properties of a run: the names it creates *)

\* no scalar of the model holds the opening braces of a placeholder
NoBraces(model) ==
    \A v \in SubValues(model) :
        isScalar(v) =>
            \A k \in 1..(Len(Sprint(v)) - 1) : SubSeq(Sprint(v), k, k + 1) # LB

\* the operations that create a name in the output store, or report it
Creates(e) ==
    /\ e.op \in {"MkdirAll", "WriteFile", "[DIR]", "[FILE]"}
    /\ e.ok

\* C30: when no scalar of the model contains "{{", no directory or file
\* that a run creates or, in a dry run, reports has a placeholder left in
\* any component of its output path.
C30_NoPlaceholderLeft ==
    (last.ran /\ NoBraces(last.model)) =>
        \A i \in 1..Len(last.log) :
            Creates(last.log[i]) =>
                \A k \in 1..Len(last.log[i].path) :
                    FindAllStringSubmatch(last.log[i].path[k]) = <<>>

=============================================================================
